---- MODULE Spec2Model ----
(***************************************************************************)
(* The mockchain ledger (chain-impl-mockchain/src/ledger.rs) as a state    *)
(* machine.  The state is the ledger snapshot a caller holds; the actions  *)
(* are the public operations Ledger::apply_block and                       *)
(* Ledger::apply_fragment, each translated whole from its code.  The       *)
(* sub-ledgers whose code is in other files of the crate (utxo, account,   *)
(* multisig, update, setting, fee, value) follow their specification.      *)
(***************************************************************************)
EXTENDS Integers, Sequences, FiniteSets, TLC

VARIABLES ledger, ret, hist

vars == <<ledger, ret, hist>>

(***************************************************************************)
(* Bounds of the model.                                                    *)
(***************************************************************************)
\* Largest amount a Value holds (the program's Value is a u64).
MaxValue == 300
\* Block dates of the headers offered: epochs 0..MaxEpoch.
MaxEpoch == 1

(***************************************************************************)
(* Results.  An operation returns Ok with a ledger or an Err value.  The   *)
(* field "ledger" of an Err is the local working copy as it was when the   *)
(* error was returned: Rust drops it, it is kept here so that the effect   *)
(* of the steps that ran before the failure can be talked about.           *)
(***************************************************************************)
\* Option
None == << >>

Some(x) == <<x>>

NoLog == << >>

OkErr == [kind |-> "Ok"]

E(k) == [kind |-> k]

\* "let x = v; body": v is computed once and named in the body
Bind(v, body(_)) == body(v)

IsOk(r) == r.err.kind = "Ok"

\* ---------------------------------------------------------------- Value
\* Value::sum: checked addition of a sequence of amounts.
RECURSIVE SumSeq(_)
SumSeq(s) == IF s = << >> THEN 0 ELSE Head(s) + SumSeq(Tail(s))

RECURSIVE Value_sum_from(_, _, _)
Value_sum_from(s, i, acc) ==
    IF i > Len(s) THEN [ok |-> TRUE, value |-> acc]
    ELSE IF acc + s[i] > MaxValue THEN [ok |-> FALSE, value |-> 0]
    ELSE Value_sum_from(s, i + 1, acc + s[i])

Value_sum(s) == Value_sum_from(s, 1, 0)

\* ---------------------------------------------------------------- crypto
\* A signature is what was signed and by whom; verification compares both.
Sign(key, data) == [signer |-> key, data |-> data]

Verify(sig, key, data) == sig.signer = key /\ sig.data = data

\* Transaction::hash, UtxoDeclaration::hash: collision free, so injective.
Hash(content) == <<"hash", content>>

WitnessUtxoData(block0, txid) == [tag |-> "utxo", block0 |-> block0, tx |-> txid]

WitnessAccountData(block0, txid, sc) ==
    [tag |-> "account", block0 |-> block0, tx |-> txid, sc |-> sc]

WitnessMultisigData(block0, txid, sc) ==
    [tag |-> "multisig", block0 |-> block0, tx |-> txid, sc |-> sc]

\* legacy::oldaddress_from_xpub: does the legacy address derive from xpub.
OldAddressOf(xpub) == <<"oldaddr", xpub>>

oldaddress_from_xpub(address, xpub) == address = OldAddressOf(xpub)

\* ---------------------------------------------------------------- maps
Without(f, k) == [x \in DOMAIN f \ {k} |-> f[x]]

With(f, k, v) == (k :> v) @@ Without(f, k)

EmptyMap == << >>

\* ---------------------------------------------------------------- utxo::Ledger
\* transaction id -> (output index -> output)
utxo_new == EmptyMap

\* outs: a sequence of <<index, output>>
utxo_add(utxos, txid, outs) ==
    IF txid \in DOMAIN utxos
         \/ \E i, j \in 1..Len(outs) : i # j /\ outs[i][1] = outs[j][1]
    THEN [err |-> [kind |-> "UtxoError", source |-> "AlreadyExists"], utxos |-> utxos]
    ELSE LET idx == {outs[i][1] : i \in 1..Len(outs)}
             entry == [x \in idx |-> (CHOOSE i \in 1..Len(outs) : outs[i][1] = x)]
         IN [err |-> OkErr,
             utxos |-> With(utxos, txid, [x \in idx |-> outs[entry[x]][2]])]

utxo_remove(utxos, txid, index) ==
    IF txid \notin DOMAIN utxos \/ index \notin DOMAIN utxos[txid]
    THEN [err |-> [kind |-> "UtxoError", source |-> "NotFound"],
          utxos |-> utxos, output |-> << >>]
    ELSE LET rest == Without(utxos[txid], index)
         IN [err |-> OkErr,
             utxos |-> IF DOMAIN rest = {} THEN Without(utxos, txid)
                       ELSE With(utxos, txid, rest),
             output |-> utxos[txid][index]]

\* utxo::Ledger::iter, as the pointers <<transaction id, index>> it yields
utxo_iter(utxos) == UNION {{<<t, i>> : i \in DOMAIN utxos[t]} : t \in DOMAIN utxos}

RECURSIVE SumOver(_, _)
SumOver(f, S) ==
    IF S = {} THEN 0
    ELSE LET x == CHOOSE y \in S : TRUE IN f[x] + SumOver(f, S \ {x})

\* the values of the outputs of one transaction at the indexes lo..hi, summed
\* by halves
RECURSIVE SumIndexes(_, _, _)
SumIndexes(outs, lo, hi) ==
    IF DOMAIN outs \cap lo..hi = {} THEN 0
    ELSE IF lo = hi THEN outs[lo].value
    ELSE SumIndexes(outs, lo, (lo + hi) \div 2) + SumIndexes(outs, (lo + hi) \div 2 + 1, hi)

utxo_total(utxos) ==
    SumOver([t \in DOMAIN utxos |-> SumIndexes(utxos[t], 0, 255)], DOMAIN utxos)

\* ---------------------------------------------------------------- account::Ledger
\* account identifier -> (value, spending counter, delegation)
NoDelegation == << >>

account_new == EmptyMap

account_exists(accounts, id) == id \in DOMAIN accounts

AccountErr(s) == [kind |-> "Account", source |-> s]

account_add_account(accounts, id, value) ==
    IF id \in DOMAIN accounts
    THEN [err |-> AccountErr("AlreadyExists"), accounts |-> accounts]
    ELSE [err |-> OkErr,
          accounts |-> With(accounts, id,
                            [value |-> value, counter |-> 0, delegation |-> NoDelegation])]

account_add_value(accounts, id, value) ==
    IF id \notin DOMAIN accounts
    THEN [err |-> AccountErr("NonExistent"), accounts |-> accounts]
    ELSE IF accounts[id].value + value > MaxValue
    THEN [err |-> AccountErr("ValueError"), accounts |-> accounts]
    ELSE [err |-> OkErr,
          accounts |-> [accounts EXCEPT ![id].value = @ + value]]

\* returns the spending counter before its increment
account_remove_value(accounts, id, value) ==
    IF id \notin DOMAIN accounts
    THEN [err |-> AccountErr("NonExistent"), accounts |-> accounts, counter |-> 0]
    ELSE IF accounts[id].value < value
    THEN [err |-> AccountErr("InsufficientFunds"), accounts |-> accounts, counter |-> 0]
    ELSE [err |-> OkErr,
          accounts |-> [accounts EXCEPT ![id].value = @ - value,
                                        ![id].counter = @ + 1],
          counter |-> accounts[id].counter]

account_set_delegation(accounts, id, pool) ==
    IF id \notin DOMAIN accounts
    THEN [err |-> AccountErr("NonExistent"), accounts |-> accounts]
    ELSE [err |-> OkErr, accounts |-> [accounts EXCEPT ![id].delegation = pool]]

account_total(accounts) ==
    SumOver([a \in DOMAIN accounts |-> accounts[a].value], DOMAIN accounts)

\* ---------------------------------------------------------------- multisig::Ledger
\* multisig identifier -> (value, spending counter, declaration)
multisig_new == EmptyMap

MultisigErr(s) == [kind |-> "Multisig", source |-> s]

multisig_add_value(multisig, id, value) ==
    IF id \notin DOMAIN multisig
    THEN [err |-> MultisigErr("DoesntExist"), multisig |-> multisig]
    ELSE IF multisig[id].value + value > MaxValue
    THEN [err |-> MultisigErr("ValueError"), multisig |-> multisig]
    ELSE [err |-> OkErr, multisig |-> [multisig EXCEPT ![id].value = @ + value]]

multisig_remove_value(multisig, id, value) ==
    IF id \notin DOMAIN multisig
    THEN [err |-> MultisigErr("DoesntExist"), multisig |-> multisig,
          counter |-> 0, declaration |-> << >>]
    ELSE IF multisig[id].value < value
    THEN [err |-> MultisigErr("InsufficientFunds"), multisig |-> multisig,
          counter |-> 0, declaration |-> << >>]
    ELSE [err |-> OkErr,
          multisig |-> [multisig EXCEPT ![id].value = @ - value,
                                        ![id].counter = @ + 1],
          counter |-> multisig[id].counter,
          declaration |-> multisig[id].declaration]

multisig_total(multisig) ==
    SumOver([a \in DOMAIN multisig |-> multisig[a].value], DOMAIN multisig)

\* a multisig signature is a set of <<index, signature>>; it verifies iff every
\* included signature verifies against the declaration's key at its index and
\* at least threshold of them are included
msignature_verify(msig, declaration, data) ==
    /\ \A p \in msig : /\ p[1] \in 1..Len(declaration.owners)
                       /\ Verify(p[2], declaration.owners[p[1]], data)
    /\ Cardinality({p[1] : p \in msig}) >= declaration.threshold

\* ---------------------------------------------------------------- fee::LinearFee
LinearFee(constant, coefficient, certificate) ==
    [constant |-> constant, coefficient |-> coefficient, certificate |-> certificate]

NoExtra == [kind |-> "NoExtra"]

\* FeeAlgorithm::calculate: None when the fee does not fit a Value
fee_calculate(fees, tx) ==
    LET f == fees.constant + fees.coefficient * (Len(tx.inputs) + Len(tx.outputs))
    IN IF f > MaxValue THEN [ok |-> FALSE, value |-> 0] ELSE [ok |-> TRUE, value |-> f]

\* ---------------------------------------------------------------- setting::Settings
Settings_new(era) ==
    [era |-> era,
     linear_fees |-> LinearFee(0, 0, 0),
     bft_leaders |-> << >>,
     proposal_expiration |-> 1,
     active_slots_coeff |-> 500,
     consensus_nonce |-> <<"zero">>]

\* Nonce::hash_with: the stored nonce chained with the block's
hash_with(consensus_nonce, n) == Hash(<<consensus_nonce, n>>)

InSeq(x, s) == \E i \in 1..Len(s) : s[i] = x

\* one configuration parameter folded into the settings
Settings_apply_one(settings, param) ==
    CASE param.tag = "LinearFee" ->
           [err |-> OkErr, settings |-> [settings EXCEPT !.linear_fees = param.value]]
      [] param.tag = "AddBftLeader" ->
           [err |-> OkErr,
            settings |-> [settings EXCEPT !.bft_leaders =
                             IF InSeq(param.value, @) THEN @ ELSE Append(@, param.value)]]
      [] param.tag = "ProposalExpiration" ->
           [err |-> OkErr,
            settings |-> [settings EXCEPT !.proposal_expiration = param.value]]
      [] param.tag = "ConsensusGenesisPraosActiveSlotsCoeff" ->
           IF param.value.milli > 0 /\ param.value.milli <= 1000
           THEN [err |-> OkErr,
                 settings |-> [settings EXCEPT !.active_slots_coeff = param.value.milli]]
           ELSE [err |-> E("PraosActiveSlotsCoeffInvalid"), settings |-> settings]
      [] OTHER -> [err |-> OkErr, settings |-> settings]

RECURSIVE Settings_apply_from(_, _, _)
Settings_apply_from(settings, params, i) ==
    IF i > Len(params) THEN [err |-> OkErr, settings |-> settings]
    ELSE Bind(Settings_apply_one(settings, params[i]), LAMBDA r :
             IF ~IsOk(r) THEN r ELSE Settings_apply_from(r.settings, params, i + 1))

Settings_apply(settings, params) == Settings_apply_from(settings, params, 1)

\* ---------------------------------------------------------------- update::UpdateState
\* proposal id -> (state, changes, proposal date, votes)
UpdateErr(s) == [kind |-> "Update", source |-> s]

update_new == EmptyMap

update_apply_proposal(updates, proposal_id, signed_proposal, settings, cur_date) ==
    IF ~InSeq(signed_proposal.proposer_id, settings.bft_leaders)
    THEN [err |-> UpdateErr("BadProposer"), updates |-> updates]
    ELSE IF ~Verify(signed_proposal.signature, signed_proposal.proposer_id,
                    signed_proposal.proposal)
    THEN [err |-> UpdateErr("BadProposalSignature"), updates |-> updates]
    ELSE IF proposal_id \in DOMAIN updates
    THEN [err |-> UpdateErr("ProposalAlreadyPresent"), updates |-> updates]
    ELSE [err |-> OkErr,
          updates |-> With(updates, proposal_id,
                           [state |-> "Proposed",
                            proposal |-> signed_proposal.proposal,
                            proposal_date |-> cur_date,
                            votes |-> {}])]

update_apply_vote(updates, signed_vote, settings) ==
    LET id == signed_vote.vote.proposal_id
        voter == signed_vote.vote.voter_id
    IN IF id \notin DOMAIN updates \/ updates[id].state = "Adopted"
       THEN [err |-> UpdateErr("NoSuchProposal"), updates |-> updates]
       ELSE IF updates[id].state = "Expired"
       THEN [err |-> UpdateErr("ProposalExpired"), updates |-> updates]
       ELSE IF ~InSeq(voter, settings.bft_leaders)
       THEN [err |-> UpdateErr("VoterNotALeader"), updates |-> updates]
       ELSE IF ~Verify(signed_vote.signature, voter, signed_vote.vote)
       THEN [err |-> UpdateErr("BadVoteSignature"), updates |-> updates]
       ELSE IF voter \in updates[id].votes
       THEN [err |-> UpdateErr("AlreadyVoted"), updates |-> updates]
       ELSE [err |-> OkErr,
             updates |-> [updates EXCEPT ![id].votes = @ \cup {voter}]]

\* the order of the proposal ids (hashes) is the order of the proposals' serial
ProposalRank(id) == id[2].serial

RECURSIVE process_proposals_from(_, _, _, _)
process_proposals_from(updates, settings, new_date, todo) ==
    IF todo = {} THEN [err |-> OkErr, updates |-> updates, settings |-> settings]
    ELSE LET id == CHOOSE x \in todo : \A y \in todo : ProposalRank(x) <= ProposalRank(y)
             p == updates[id]
             leaders == {settings.bft_leaders[i] : i \in 1..Len(settings.bft_leaders)}
         IN IF p.state # "Proposed"
            THEN process_proposals_from(updates, settings, new_date, todo \ {id})
            ELSE IF 2 * Cardinality(p.votes \cap leaders) > Cardinality(leaders)
            THEN Bind(Settings_apply(settings, p.proposal.changes), LAMBDA r :
                     IF ~IsOk(r)
                     THEN [err |-> r.err, updates |-> updates, settings |-> settings]
                     ELSE process_proposals_from(
                              [updates EXCEPT ![id].state = "Adopted"],
                              r.settings, new_date, todo \ {id}))
            ELSE IF new_date[1] - p.proposal_date[1] > settings.proposal_expiration
            THEN process_proposals_from([updates EXCEPT ![id].state = "Expired"],
                                        settings, new_date, todo \ {id})
            ELSE process_proposals_from(updates, settings, new_date, todo \ {id})

update_process_proposals(updates, settings, old_date, new_date) ==
    process_proposals_from(updates, settings, new_date, DOMAIN updates)

\* ---------------------------------------------------------------- stake::DelegationState
DelegationErr(s) == [kind |-> "Delegation", source |-> s]

delegation_new == EmptyMap

\* StakePoolInfo::to_id: the hash of serial, owners, kes and vrf public keys
StakePoolInfo_to_id(info) ==
    Hash(<<info.serial, info.owners, info.kes_public_key, info.vrf_public_key>>)

stake_pool_exists(delegation, pool_id) == pool_id \in DOMAIN delegation

register_stake_pool(delegation, info) ==
    IF StakePoolInfo_to_id(info) \in DOMAIN delegation
    THEN [err |-> DelegationErr("StakePoolAlreadyExists"), delegation |-> delegation]
    ELSE [err |-> OkErr, delegation |-> With(delegation, StakePoolInfo_to_id(info), info)]

deregister_stake_pool(delegation, pool_id) ==
    IF pool_id \notin DOMAIN delegation
    THEN [err |-> DelegationErr("StakePoolDoesNotExist"), delegation |-> delegation]
    ELSE [err |-> OkErr, delegation |-> Without(delegation, pool_id)]

\* Certificate::verify: the certificate's own signature, by the key it names
certificate_verify(certificate) ==
    Verify(certificate.signature, certificate.signer, certificate.content)

(***************************************************************************)
(* ledger.rs                                                               *)
(***************************************************************************)
MAX_TRANSACTION_INPUTS_COUNT == 256
MAX_TRANSACTION_OUTPUTS_COUNT == 254
MAX_TRANSACTION_WITNESSES_COUNT == 256

\* what an operation on a ledger returns: the error (or Ok), the ledger (for
\* an error: the working copy that is dropped) and, per account input that was
\* verified, the account, its counter before the increment and the data the
\* signature was checked against
R(err, l, log) == [err |-> err, ledger |-> l, log |-> log]

\* "index as u8"
AsU8(i) == i % 256

\* AccountIdentifier::to_single_account: None unless the bytes are a public key
IsPublicKey(id) == id[1] = "key"

\* Address::public_key of the address kinds that have a spending key
HasPublicKey(address) == address.kind \in {"Single", "Group", "Account"}

\* mutation: an equal date passes
DateLE_strict(a, b) == a[1] < b[1] \/ (a[1] = b[1] /\ a[2] < b[2])

\* BlockDate <= BlockDate
DateLE(a, b) == a[1] < b[1] \/ (a[1] = b[1] /\ a[2] <= b[2])

Ledger_empty(settings, static_params) ==
    [utxos |-> utxo_new,
     oldutxos |-> utxo_new,
     accounts |-> account_new,
     settings |-> settings,
     updates |-> update_new,
     multisig |-> multisig_new,
     delegation |-> delegation_new,
     static_params |-> static_params,
     date |-> <<0, 0>>,
     chain_length |-> 0]

get_ledger_parameters(l) == [fees |-> l.settings.linear_fees]

\* mutation: a verified utxo stays in the ledger
input_utxo_verify_kept(l, transaction_id, utxo, witness) ==
    CASE witness.kind \in {"Account", "Multisig"} ->
           R(E("ExpectingUtxoWitness"), l, NoLog)
      [] witness.kind = "OldUtxo" ->
           Bind(utxo_remove(l.oldutxos, utxo.transaction_id, utxo.output_index),
                LAMBDA r :
           LET data == WitnessUtxoData(l.static_params.block0_initial_hash, transaction_id)
           IN IF ~IsOk(r) THEN R(r.err, l, NoLog)
              ELSE IF utxo.value # r.output.value
              THEN R([kind |-> "UtxoValueNotMatching", expected |-> utxo.value,
                      value |-> r.output.value], l, NoLog)
              ELSE IF oldaddress_from_xpub(r.output.address, witness.xpub)
              THEN R(E("OldUtxoInvalidPublicKey"), l, NoLog)
              ELSE IF ~Verify(witness.sig, witness.xpub, data)
              THEN R(E("OldUtxoInvalidSignature"), l, NoLog)
              ELSE R(OkErr, l, NoLog))
      [] witness.kind = "Utxo" ->
           Bind(utxo_remove(l.utxos, utxo.transaction_id, utxo.output_index),
                LAMBDA r :
           LET data == WitnessUtxoData(l.static_params.block0_initial_hash, transaction_id)
           IN IF ~IsOk(r) THEN R(r.err, l, NoLog)
              ELSE IF utxo.value # r.output.value
              THEN R([kind |-> "UtxoValueNotMatching", expected |-> utxo.value,
                      value |-> r.output.value], l, NoLog)
              ELSE IF ~HasPublicKey(r.output.address)
              THEN R(E("Panic"), l, NoLog)
              ELSE IF ~Verify(witness.sig, r.output.address.spending, data)
              THEN R(E("UtxoInvalidSignature"), l, NoLog)
              ELSE R(OkErr, l, NoLog))

\* mutation: the value of the pointer is not compared with the stored value
input_utxo_verify_any_value(l, transaction_id, utxo, witness) ==
    CASE witness.kind \in {"Account", "Multisig"} ->
           R(E("ExpectingUtxoWitness"), l, NoLog)
      [] witness.kind = "OldUtxo" ->
           Bind(utxo_remove(l.oldutxos, utxo.transaction_id, utxo.output_index),
                LAMBDA r :
           LET l1 == [l EXCEPT !.oldutxos = r.utxos]
               data == WitnessUtxoData(l.static_params.block0_initial_hash, transaction_id)
           IN IF ~IsOk(r) THEN R(r.err, l, NoLog)
              ELSE IF oldaddress_from_xpub(r.output.address, witness.xpub)
              THEN R(E("OldUtxoInvalidPublicKey"), l1, NoLog)
              ELSE IF ~Verify(witness.sig, witness.xpub, data)
              THEN R(E("OldUtxoInvalidSignature"), l1, NoLog)
              ELSE R(OkErr, l1, NoLog))
      [] witness.kind = "Utxo" ->
           Bind(utxo_remove(l.utxos, utxo.transaction_id, utxo.output_index),
                LAMBDA r :
           LET l1 == [l EXCEPT !.utxos = r.utxos]
               data == WitnessUtxoData(l.static_params.block0_initial_hash, transaction_id)
           IN IF ~IsOk(r) THEN R(r.err, l, NoLog)
              ELSE IF ~HasPublicKey(r.output.address)
              THEN R(E("Panic"), l1, NoLog)
              ELSE IF ~Verify(witness.sig, r.output.address.spending, data)
              THEN R(E("UtxoInvalidSignature"), l1, NoLog)
              ELSE R(OkErr, l1, NoLog))

input_utxo_verify(l, transaction_id, utxo, witness) ==
    CASE witness.kind \in {"Account", "Multisig"} ->
           R(E("ExpectingUtxoWitness"), l, NoLog)
      [] witness.kind = "OldUtxo" ->
           Bind(utxo_remove(l.oldutxos, utxo.transaction_id, utxo.output_index),
                LAMBDA r :
           LET l1 == [l EXCEPT !.oldutxos = r.utxos]
               data == WitnessUtxoData(l.static_params.block0_initial_hash, transaction_id)
           IN IF ~IsOk(r) THEN R(r.err, l, NoLog)
              ELSE IF utxo.value # r.output.value
              THEN R([kind |-> "UtxoValueNotMatching", expected |-> utxo.value,
                      value |-> r.output.value], l1, NoLog)
              ELSE IF oldaddress_from_xpub(r.output.address, witness.xpub)
              THEN R(E("OldUtxoInvalidPublicKey"), l1, NoLog)
              ELSE IF ~Verify(witness.sig, witness.xpub, data)
              THEN R(E("OldUtxoInvalidSignature"), l1, NoLog)
              ELSE R(OkErr, l1, NoLog))
      [] witness.kind = "Utxo" ->
           Bind(utxo_remove(l.utxos, utxo.transaction_id, utxo.output_index),
                LAMBDA r :
           LET l1 == [l EXCEPT !.utxos = r.utxos]
               data == WitnessUtxoData(l.static_params.block0_initial_hash, transaction_id)
           IN IF ~IsOk(r) THEN R(r.err, l, NoLog)
              ELSE IF utxo.value # r.output.value
              THEN R([kind |-> "UtxoValueNotMatching", expected |-> utxo.value,
                      value |-> r.output.value], l1, NoLog)
              ELSE IF ~HasPublicKey(r.output.address)
              THEN R(E("Panic"), l1, NoLog)
              ELSE IF ~Verify(witness.sig, r.output.address.spending, data)
              THEN R(E("UtxoInvalidSignature"), l1, NoLog)
              ELSE R(OkErr, l1, NoLog))

\* mutation: the account witness is not verified
input_account_verify_unsigned(l, block0_hash, transaction_id, account, value, witness) ==
    CASE witness.kind \in {"OldUtxo", "Utxo"} ->
           R(E("ExpectingAccountWitness"), l, NoLog)
      [] witness.kind = "Account" ->
           IF ~IsPublicKey(account) THEN R(E("AccountIdentifierInvalid"), l, NoLog)
           ELSE Bind(account_remove_value(l.accounts, account, value), LAMBDA r :
                LET l1 == [l EXCEPT !.accounts = r.accounts]
                    tidsc == WitnessAccountData(block0_hash, transaction_id, r.counter)
                IN IF ~IsOk(r) THEN R(r.err, l, NoLog)
                   ELSE R(OkErr, l1,
                          <<[account |-> account, counter |-> r.counter,
                             value |-> value, data |-> tidsc]>>))
      [] witness.kind = "Multisig" ->
           Bind(multisig_remove_value(l.multisig, account, value), LAMBDA r :
           LET data == WitnessMultisigData(block0_hash, transaction_id, r.counter)
           IN IF ~IsOk(r) THEN R(r.err, l, NoLog)
              ELSE IF ~msignature_verify(witness.sig, r.declaration, data)
              THEN R([kind |-> "MultisigInvalidSignature", account |-> account],
                     l, NoLog)
              ELSE R(OkErr, [l EXCEPT !.multisig = r.multisig],
                     <<[account |-> account, counter |-> r.counter,
                        value |-> value, data |-> data]>>))

\* mutation: the signature is checked against the counter after the increment
input_account_verify_incremented(l, block0_hash, transaction_id, account, value, witness) ==
    CASE witness.kind \in {"OldUtxo", "Utxo"} ->
           R(E("ExpectingAccountWitness"), l, NoLog)
      [] witness.kind = "Account" ->
           IF ~IsPublicKey(account) THEN R(E("AccountIdentifierInvalid"), l, NoLog)
           ELSE Bind(account_remove_value(l.accounts, account, value), LAMBDA r :
                LET l1 == [l EXCEPT !.accounts = r.accounts]
                    tidsc == WitnessAccountData(block0_hash, transaction_id, r.counter + 1)
                IN IF ~IsOk(r) THEN R(r.err, l, NoLog)
                   ELSE IF ~Verify(witness.sig, account, tidsc)
                   THEN R([kind |-> "AccountInvalidSignature", account |-> account],
                          l1, NoLog)
                   ELSE R(OkErr, l1,
                          <<[account |-> account, counter |-> r.counter,
                             value |-> value, data |-> tidsc]>>))
      [] witness.kind = "Multisig" ->
           Bind(multisig_remove_value(l.multisig, account, value), LAMBDA r :
           LET data == WitnessMultisigData(block0_hash, transaction_id, r.counter)
           IN IF ~IsOk(r) THEN R(r.err, l, NoLog)
              ELSE IF ~msignature_verify(witness.sig, r.declaration, data)
              THEN R([kind |-> "MultisigInvalidSignature", account |-> account],
                     l, NoLog)
              ELSE R(OkErr, [l EXCEPT !.multisig = r.multisig],
                     <<[account |-> account, counter |-> r.counter,
                        value |-> value, data |-> data]>>))

\* works on the account and multisig sub-ledgers of l
input_account_verify(l, block0_hash, transaction_id, account, value, witness) ==
    CASE witness.kind \in {"OldUtxo", "Utxo"} ->
           R(E("ExpectingAccountWitness"), l, NoLog)
      [] witness.kind = "Account" ->
           IF ~IsPublicKey(account) THEN R(E("AccountIdentifierInvalid"), l, NoLog)
           ELSE Bind(account_remove_value(l.accounts, account, value), LAMBDA r :
                LET l1 == [l EXCEPT !.accounts = r.accounts]
                    tidsc == WitnessAccountData(block0_hash, transaction_id, r.counter)
                IN IF ~IsOk(r) THEN R(r.err, l, NoLog)
                   ELSE IF ~Verify(witness.sig, account, tidsc)
                   THEN R([kind |-> "AccountInvalidSignature", account |-> account],
                          l1, NoLog)
                   ELSE R(OkErr, l1,
                          <<[account |-> account, counter |-> r.counter,
                             value |-> value, data |-> tidsc]>>))
      [] witness.kind = "Multisig" ->
           Bind(multisig_remove_value(l.multisig, account, value), LAMBDA r :
           LET data == WitnessMultisigData(block0_hash, transaction_id, r.counter)
           IN IF ~IsOk(r) THEN R(r.err, l, NoLog)
              ELSE IF ~msignature_verify(witness.sig, r.declaration, data)
              THEN R([kind |-> "MultisigInvalidSignature", account |-> account],
                     l, NoLog)
              ELSE R(OkErr, [l EXCEPT !.multisig = r.multisig],
                     <<[account |-> account, counter |-> r.counter,
                        value |-> value, data |-> data]>>))

\* mutation: an account created by an Account output starts empty
apply_output_kind_new_account_empty(l, output, i, new_utxos) ==
    LET fail(e) == [err |-> e, ledger |-> l, new_utxos |-> new_utxos]
        next(l1, nu) == [err |-> OkErr, ledger |-> l1, new_utxos |-> nu]
    IN CASE output.address.kind = "Single" ->
              next(l, Append(new_utxos, <<AsU8(i), output>>))
         [] output.address.kind = "Group" ->
              IF ~account_exists(l.accounts, output.address.account)
              THEN Bind(account_add_account(l.accounts, output.address.account, 0),
                        LAMBDA r :
                      IF ~IsOk(r) THEN fail(r.err)
                      ELSE next([l EXCEPT !.accounts = r.accounts],
                                Append(new_utxos, <<AsU8(i), output>>)))
              ELSE next(l, Append(new_utxos, <<AsU8(i), output>>))
         [] output.address.kind = "Account" ->
              Bind(account_add_value(l.accounts, output.address.account, output.value),
                   LAMBDA r :
                 IF IsOk(r) THEN next([l EXCEPT !.accounts = r.accounts], new_utxos)
                 ELSE IF r.err = AccountErr("NonExistent")
                 THEN Bind(account_add_account(l.accounts, output.address.account, 0),
                           LAMBDA r2 :
                         IF ~IsOk(r2) THEN fail(r2.err)
                         ELSE next([l EXCEPT !.accounts = r2.accounts], new_utxos))
                 ELSE fail(r.err))
         [] output.address.kind = "Multisig" ->
              Bind(multisig_add_value(l.multisig, output.address.account, output.value),
                   LAMBDA r :
                 IF ~IsOk(r) THEN fail(r.err)
                 ELSE next([l EXCEPT !.multisig = r.multisig], new_utxos))

\* mutation: an account created by a Group output is credited the value
apply_output_kind_group_credited(l, output, i, new_utxos) ==
    LET fail(e) == [err |-> e, ledger |-> l, new_utxos |-> new_utxos]
        next(l1, nu) == [err |-> OkErr, ledger |-> l1, new_utxos |-> nu]
    IN CASE output.address.kind = "Single" ->
              next(l, Append(new_utxos, <<AsU8(i), output>>))
         [] output.address.kind = "Group" ->
              IF ~account_exists(l.accounts, output.address.account)
              THEN Bind(account_add_account(l.accounts, output.address.account, output.value),
                        LAMBDA r :
                      IF ~IsOk(r) THEN fail(r.err)
                      ELSE next([l EXCEPT !.accounts = r.accounts],
                                Append(new_utxos, <<AsU8(i), output>>)))
              ELSE next(l, Append(new_utxos, <<AsU8(i), output>>))
         [] output.address.kind = "Account" ->
              Bind(account_add_value(l.accounts, output.address.account, output.value),
                   LAMBDA r :
                 IF IsOk(r) THEN next([l EXCEPT !.accounts = r.accounts], new_utxos)
                 ELSE IF r.err = AccountErr("NonExistent")
                 THEN Bind(account_add_account(l.accounts, output.address.account,
                                               output.value),
                           LAMBDA r2 :
                         IF ~IsOk(r2) THEN fail(r2.err)
                         ELSE next([l EXCEPT !.accounts = r2.accounts], new_utxos))
                 ELSE fail(r.err))
         [] output.address.kind = "Multisig" ->
              Bind(multisig_add_value(l.multisig, output.address.account, output.value),
                   LAMBDA r :
                 IF ~IsOk(r) THEN fail(r.err)
                 ELSE next([l EXCEPT !.multisig = r.multisig], new_utxos))

\* mutation: a Multisig output creates the account it names
apply_output_kind_multisig_created(l, output, i, new_utxos) ==
    LET fail(e) == [err |-> e, ledger |-> l, new_utxos |-> new_utxos]
        next(l1, nu) == [err |-> OkErr, ledger |-> l1, new_utxos |-> nu]
    IN CASE output.address.kind = "Single" ->
              next(l, Append(new_utxos, <<AsU8(i), output>>))
         [] output.address.kind = "Group" ->
              IF ~account_exists(l.accounts, output.address.account)
              THEN Bind(account_add_account(l.accounts, output.address.account, 0),
                        LAMBDA r :
                      IF ~IsOk(r) THEN fail(r.err)
                      ELSE next([l EXCEPT !.accounts = r.accounts],
                                Append(new_utxos, <<AsU8(i), output>>)))
              ELSE next(l, Append(new_utxos, <<AsU8(i), output>>))
         [] output.address.kind = "Account" ->
              Bind(account_add_value(l.accounts, output.address.account, output.value),
                   LAMBDA r :
                 IF IsOk(r) THEN next([l EXCEPT !.accounts = r.accounts], new_utxos)
                 ELSE IF r.err = AccountErr("NonExistent")
                 THEN Bind(account_add_account(l.accounts, output.address.account,
                                               output.value),
                           LAMBDA r2 :
                         IF ~IsOk(r2) THEN fail(r2.err)
                         ELSE next([l EXCEPT !.accounts = r2.accounts], new_utxos))
                 ELSE fail(r.err))
         [] output.address.kind = "Multisig" ->
              Bind(multisig_add_value(l.multisig, output.address.account, output.value),
                   LAMBDA r :
                 IF r.err = MultisigErr("DoesntExist")
                 THEN next([l EXCEPT !.multisig =
                               With(@, output.address.account,
                                    [value |-> output.value, counter |-> 0,
                                     declaration |-> << >>])], new_utxos)
                 ELSE IF ~IsOk(r) THEN fail(r.err)
                 ELSE next([l EXCEPT !.multisig = r.multisig], new_utxos))

\* mutation: an output to an account is also kept as a utxo
apply_output_kind_account_kept(l, output, i, new_utxos) ==
    LET fail(e) == [err |-> e, ledger |-> l, new_utxos |-> new_utxos]
        next(l1, nu) == [err |-> OkErr, ledger |-> l1, new_utxos |-> nu]
    IN CASE output.address.kind = "Single" ->
              next(l, Append(new_utxos, <<AsU8(i), output>>))
         [] output.address.kind = "Group" ->
              IF ~account_exists(l.accounts, output.address.account)
              THEN Bind(account_add_account(l.accounts, output.address.account, 0),
                        LAMBDA r :
                      IF ~IsOk(r) THEN fail(r.err)
                      ELSE next([l EXCEPT !.accounts = r.accounts],
                                Append(new_utxos, <<AsU8(i), output>>)))
              ELSE next(l, Append(new_utxos, <<AsU8(i), output>>))
         [] output.address.kind = "Account" ->
              Bind(account_add_value(l.accounts, output.address.account, output.value),
                   LAMBDA r :
                 IF IsOk(r)
                 THEN next([l EXCEPT !.accounts = r.accounts],
                           Append(new_utxos, <<AsU8(i), output>>))
                 ELSE IF r.err = AccountErr("NonExistent")
                 THEN Bind(account_add_account(l.accounts, output.address.account,
                                               output.value),
                           LAMBDA r2 :
                         IF ~IsOk(r2) THEN fail(r2.err)
                         ELSE next([l EXCEPT !.accounts = r2.accounts],
                                   Append(new_utxos, <<AsU8(i), output>>)))
                 ELSE fail(r.err))
         [] output.address.kind = "Multisig" ->
              Bind(multisig_add_value(l.multisig, output.address.account, output.value),
                   LAMBDA r :
                 IF ~IsOk(r) THEN fail(r.err)
                 ELSE next([l EXCEPT !.multisig = r.multisig], new_utxos))

\* the match on the address kind of one output, at position i (0-based);
\* new_utxos collects the <<index, output>> to add
apply_output_kind(l, output, i, new_utxos) ==
    LET fail(e) == [err |-> e, ledger |-> l, new_utxos |-> new_utxos]
        next(l1, nu) == [err |-> OkErr, ledger |-> l1, new_utxos |-> nu]
    IN CASE output.address.kind = "Single" ->
              next(l, Append(new_utxos, <<AsU8(i), output>>))
         [] output.address.kind = "Group" ->
              IF ~account_exists(l.accounts, output.address.account)
              THEN Bind(account_add_account(l.accounts, output.address.account, 0),
                        LAMBDA r :
                      IF ~IsOk(r) THEN fail(r.err)
                      ELSE next([l EXCEPT !.accounts = r.accounts],
                                Append(new_utxos, <<AsU8(i), output>>)))
              ELSE next(l, Append(new_utxos, <<AsU8(i), output>>))
         [] output.address.kind = "Account" ->
              Bind(account_add_value(l.accounts, output.address.account, output.value),
                   LAMBDA r :
                 IF IsOk(r) THEN next([l EXCEPT !.accounts = r.accounts], new_utxos)
                 ELSE IF r.err = AccountErr("NonExistent")
                 THEN Bind(account_add_account(l.accounts, output.address.account,
                                               output.value),
                           LAMBDA r2 :
                         IF ~IsOk(r2) THEN fail(r2.err)
                         ELSE next([l EXCEPT !.accounts = r2.accounts], new_utxos))
                 ELSE fail(r.err))
         [] output.address.kind = "Multisig" ->
              Bind(multisig_add_value(l.multisig, output.address.account, output.value),
                   LAMBDA r :
                 IF ~IsOk(r) THEN fail(r.err)
                 ELSE next([l EXCEPT !.multisig = r.multisig], new_utxos))

\* mutation: an output of value zero is not refused
apply_output_any_value(l, static_params, output, i, new_utxos) ==
    IF output.address.discrimination # static_params.discrimination
    THEN [err |-> E("InvalidDiscrimination"), ledger |-> l, new_utxos |-> new_utxos]
    ELSE apply_output_kind(l, output, i, new_utxos)

\* mutation: an output of another discrimination is not refused
apply_output_any_discrimination(l, static_params, output, i, new_utxos) ==
    IF output.value = 0
    THEN [err |-> [kind |-> "ZeroOutput", output |-> output], ledger |-> l,
          new_utxos |-> new_utxos]
    ELSE apply_output_kind(l, output, i, new_utxos)

\* one turn of the loop over the outputs
apply_output(l, static_params, output, i, new_utxos) ==
    IF output.value = 0
    THEN [err |-> [kind |-> "ZeroOutput", output |-> output], ledger |-> l,
          new_utxos |-> new_utxos]
    ELSE IF output.address.discrimination # static_params.discrimination
    THEN [err |-> E("InvalidDiscrimination"), ledger |-> l, new_utxos |-> new_utxos]
    ELSE apply_output_kind(l, output, i, new_utxos)

\* the loop over the outputs at the positions lo..hi-1 (0-based), in order and
\* up to the first that fails: the first half, then the second half on what
\* the first left
RECURSIVE apply_outputs_from(_, _, _, _, _, _)
apply_outputs_from(l, static_params, outputs, lo, hi, new_utxos) ==
    IF lo >= hi THEN [err |-> OkErr, ledger |-> l, new_utxos |-> new_utxos]
    ELSE IF hi = lo + 1 THEN apply_output(l, static_params, outputs[lo + 1], lo, new_utxos)
    ELSE Bind(apply_outputs_from(l, static_params, outputs, lo, (lo + hi) \div 2,
                                 new_utxos),
              LAMBDA r :
            IF ~IsOk(r) THEN r
            ELSE apply_outputs_from(r.ledger, static_params, outputs,
                                    (lo + hi) \div 2, hi, r.new_utxos))

\* works on the utxos, accounts and multisig sub-ledgers of l
internal_apply_transaction_output(l, static_params, transaction_id, outputs) ==
    Bind(apply_outputs_from(l, static_params, outputs, 0, Len(outputs), << >>),
         LAMBDA r :
       IF ~IsOk(r) THEN R(r.err, r.ledger, NoLog)
       ELSE Bind(utxo_add(r.ledger.utxos, transaction_id, r.new_utxos), LAMBDA a :
               IF ~IsOk(a) THEN R(a.err, r.ledger, NoLog)
               ELSE R(OkErr, [r.ledger EXCEPT !.utxos = a.utxos], NoLog)))

\* mutation: the loop ends after the first pair
apply_inputs_from_first(l, transaction_id, inputs, witnesses, i, log) ==
    IF i > Len(inputs) \/ i > Len(witnesses) THEN R(OkErr, l, log)
    ELSE Bind(LET input == inputs[i]
              IN IF input.kind = "Utxo"
                 THEN input_utxo_verify(l, transaction_id, input.utxo, witnesses[i])
                 ELSE input_account_verify(l, l.static_params.block0_initial_hash,
                                           transaction_id, input.account, input.value,
                                           witnesses[i]),
              LAMBDA r :
            IF ~IsOk(r) THEN R(r.err, r.ledger, log)
            ELSE R(OkErr, r.ledger, log \o r.log))

\* mutation: the kind of the witness, not of the input, selects the verification
RECURSIVE apply_inputs_from_by_witness(_, _, _, _, _, _)
apply_inputs_from_by_witness(l, transaction_id, inputs, witnesses, i, log) ==
    IF i > Len(inputs) \/ i > Len(witnesses) THEN R(OkErr, l, log)
    ELSE Bind(LET input == inputs[i]
              IN IF witnesses[i].kind \in {"Utxo", "OldUtxo"}
                 THEN input_utxo_verify(l, transaction_id, input.utxo, witnesses[i])
                 ELSE input_account_verify(l, l.static_params.block0_initial_hash,
                                           transaction_id, input.account, input.value,
                                           witnesses[i]),
              LAMBDA r :
            IF ~IsOk(r) THEN R(r.err, r.ledger, log)
            ELSE apply_inputs_from_by_witness(r.ledger, transaction_id, inputs, witnesses,
                                              i + 1, log \o r.log))

\* the loop over the inputs zipped with the witnesses, from pair i on
RECURSIVE apply_inputs_from(_, _, _, _, _, _)
apply_inputs_from(l, transaction_id, inputs, witnesses, i, log) ==
    IF i > Len(inputs) \/ i > Len(witnesses) THEN R(OkErr, l, log)
    ELSE Bind(LET input == inputs[i]
              IN IF input.kind = "Utxo"
                 THEN input_utxo_verify(l, transaction_id, input.utxo, witnesses[i])
                 ELSE input_account_verify(l, l.static_params.block0_initial_hash,
                                           transaction_id, input.account, input.value,
                                           witnesses[i]),
              LAMBDA r :
            IF ~IsOk(r) THEN R(r.err, r.ledger, log)
            ELSE apply_inputs_from(r.ledger, transaction_id, inputs, witnesses,
                                   i + 1, log \o r.log))

\* mutation: only the first input is counted
InputValues_first(inputs) == <<inputs[1].value>>

InputValues(inputs) == [i \in 1..Len(inputs) |-> inputs[i].value]

\* mutation: the fee is left out of the outputs' total
OutputValues_no_fee(outputs, fee) == [i \in 1..Len(outputs) |-> outputs[i].value]

\* the output values chained with the fee
OutputValues(outputs, fee) == Append([i \in 1..Len(outputs) |-> outputs[i].value], fee)

\* mutation: the totals are compared before the inputs are verified
internal_apply_transaction_balance_first(l, transaction_id, inputs, outputs, witnesses, fee) ==
    IF Len(inputs) > MAX_TRANSACTION_INPUTS_COUNT
    THEN R([kind |-> "TransactionHasTooManyInputs",
            expected |-> MAX_TRANSACTION_INPUTS_COUNT, actual |-> Len(inputs)], l, NoLog)
    ELSE IF Len(outputs) > MAX_TRANSACTION_OUTPUTS_COUNT
    THEN R([kind |-> "TransactionHasTooManyOutputs",
            expected |-> MAX_TRANSACTION_OUTPUTS_COUNT, actual |-> Len(outputs)], l, NoLog)
    ELSE IF Len(witnesses) > MAX_TRANSACTION_WITNESSES_COUNT
    THEN R([kind |-> "TransactionHasTooManyWitnesses",
            expected |-> MAX_TRANSACTION_WITNESSES_COUNT, actual |-> Len(witnesses)],
           l, NoLog)
    ELSE IF Len(inputs) # Len(witnesses)
    THEN R([kind |-> "NotEnoughSignatures",
            expected |-> Len(inputs), actual |-> Len(witnesses)], l, NoLog)
    ELSE Bind(apply_inputs_from(l, transaction_id, inputs, witnesses, 1, NoLog),
              LAMBDA ri :
         Bind(Value_sum(InputValues(inputs)), LAMBDA total_input :
         Bind(Value_sum(OutputValues(outputs, fee)), LAMBDA total_output :
            IF ~total_input.ok THEN R(E("UtxoInputsTotal"), l, NoLog)
            ELSE IF ~total_output.ok THEN R(E("UtxoOutputsTotal"), l, NoLog)
            ELSE IF total_input.value # total_output.value
            THEN R([kind |-> "NotBalanced", inputs |-> total_input.value,
                    outputs |-> total_output.value], l, NoLog)
            ELSE IF ~IsOk(ri) THEN ri
            ELSE Bind(internal_apply_transaction_output(
                          ri.ledger, ri.ledger.static_params, transaction_id, outputs),
                      LAMBDA ro : R(ro.err, ro.ledger, ri.log)))))

internal_apply_transaction(l, transaction_id, inputs, outputs, witnesses, fee) ==
    IF Len(inputs) > MAX_TRANSACTION_INPUTS_COUNT
    THEN R([kind |-> "TransactionHasTooManyInputs",
            expected |-> MAX_TRANSACTION_INPUTS_COUNT, actual |-> Len(inputs)], l, NoLog)
    ELSE IF Len(outputs) > MAX_TRANSACTION_OUTPUTS_COUNT
    THEN R([kind |-> "TransactionHasTooManyOutputs",
            expected |-> MAX_TRANSACTION_OUTPUTS_COUNT, actual |-> Len(outputs)], l, NoLog)
    ELSE IF Len(witnesses) > MAX_TRANSACTION_WITNESSES_COUNT
    THEN R([kind |-> "TransactionHasTooManyWitnesses",
            expected |-> MAX_TRANSACTION_WITNESSES_COUNT, actual |-> Len(witnesses)],
           l, NoLog)
    ELSE IF Len(inputs) # Len(witnesses)
    THEN R([kind |-> "NotEnoughSignatures",
            expected |-> Len(inputs), actual |-> Len(witnesses)], l, NoLog)
    ELSE Bind(apply_inputs_from(l, transaction_id, inputs, witnesses, 1, NoLog),
              LAMBDA ri :
         Bind(Value_sum(InputValues(inputs)), LAMBDA total_input :
         Bind(Value_sum(OutputValues(outputs, fee)), LAMBDA total_output :
            IF ~IsOk(ri) THEN ri
            ELSE IF ~total_input.ok THEN R(E("UtxoInputsTotal"), ri.ledger, ri.log)
            ELSE IF ~total_output.ok THEN R(E("UtxoOutputsTotal"), ri.ledger, ri.log)
            ELSE IF total_input.value # total_output.value
            THEN R([kind |-> "NotBalanced", inputs |-> total_input.value,
                    outputs |-> total_output.value], ri.ledger, ri.log)
            ELSE Bind(internal_apply_transaction_output(
                          ri.ledger, ri.ledger.static_params, transaction_id, outputs),
                      LAMBDA ro : R(ro.err, ro.ledger, ri.log)))))

\* mutation: the ledger is returned whatever the checks said
apply_transaction_unchecked(l, signed_tx, dyn_params) ==
    LET transaction_id == Hash(signed_tx.transaction)
    IN Bind(fee_calculate(dyn_params.fees, signed_tx.transaction), LAMBDA fee :
       IF ~fee.ok THEN R(E("FeeCalculationError"), l, NoLog)
       ELSE Bind(internal_apply_transaction(l, transaction_id,
                     signed_tx.transaction.inputs, signed_tx.transaction.outputs,
                     signed_tx.witnesses, fee.value),
                 LAMBDA r : R(OkErr, r.ledger, r.log)))

apply_transaction(l, signed_tx, dyn_params) ==
    LET transaction_id == Hash(signed_tx.transaction)
    IN Bind(fee_calculate(dyn_params.fees, signed_tx.transaction), LAMBDA fee :
       IF ~fee.ok THEN R(E("FeeCalculationError"), l, NoLog)
       ELSE internal_apply_transaction(l, transaction_id,
                signed_tx.transaction.inputs, signed_tx.transaction.outputs,
                signed_tx.witnesses, fee.value))

apply_update_proposal(l, proposal_id, proposal, cur_date) ==
    Bind(update_apply_proposal(l.updates, proposal_id, proposal, l.settings, cur_date),
         LAMBDA r :
       IF ~IsOk(r) THEN R(r.err, l, NoLog)
       ELSE R(OkErr, [l EXCEPT !.updates = r.updates], NoLog))

apply_update_vote(l, vote) ==
    Bind(update_apply_vote(l.updates, vote, l.settings), LAMBDA r :
       IF ~IsOk(r) THEN R(r.err, l, NoLog)
       ELSE R(OkErr, [l EXCEPT !.updates = r.updates], NoLog))

apply_update(self, update) ==
    Bind(Settings_apply(self.settings, update.changes), LAMBDA r :
       IF ~IsOk(r) THEN R(r.err, self, NoLog)
       ELSE R(OkErr, [self EXCEPT !.settings = r.settings], NoLog))

\* mutation: the stake key is looked at before the pool
apply_certificate_content_key_first(l, certificate) ==
    LET c == certificate.content
    IN CASE c.kind = "StakeDelegation" ->
              IF ~IsPublicKey(c.stake_key_id)
              THEN R(DelegationErr("StakeDelegationAccountIsInvalid"), l, NoLog)
              ELSE Bind(account_set_delegation(l.accounts, c.stake_key_id, c.pool_id),
                        LAMBDA r :
                      IF ~IsOk(r) THEN R(r.err, l, NoLog)
                      ELSE IF ~stake_pool_exists(l.delegation, c.pool_id)
                      THEN R(DelegationErr("StakeDelegationPoolKeyIsInvalid"), l, NoLog)
                      ELSE R(OkErr, [l EXCEPT !.accounts = r.accounts], NoLog))
         [] c.kind = "StakePoolRegistration" ->
              Bind(register_stake_pool(l.delegation, c.info), LAMBDA r :
                 IF ~IsOk(r) THEN R(r.err, l, NoLog)
                 ELSE R(OkErr, [l EXCEPT !.delegation = r.delegation], NoLog))
         [] c.kind = "StakePoolRetirement" ->
              Bind(deregister_stake_pool(l.delegation, c.pool_id), LAMBDA r :
                 IF ~IsOk(r) THEN R(r.err, l, NoLog)
                 ELSE R(OkErr, [l EXCEPT !.delegation = r.delegation], NoLog))

apply_certificate_content(l, certificate) ==
    LET c == certificate.content
    IN CASE c.kind = "StakeDelegation" ->
              IF ~stake_pool_exists(l.delegation, c.pool_id)
              THEN R(DelegationErr("StakeDelegationPoolKeyIsInvalid"), l, NoLog)
              ELSE IF IsPublicKey(c.stake_key_id)
              THEN Bind(account_set_delegation(l.accounts, c.stake_key_id, c.pool_id),
                        LAMBDA r :
                      IF ~IsOk(r) THEN R(r.err, l, NoLog)
                      ELSE R(OkErr, [l EXCEPT !.accounts = r.accounts], NoLog))
              ELSE R(DelegationErr("StakeDelegationAccountIsInvalid"), l, NoLog)
         [] c.kind = "StakePoolRegistration" ->
              Bind(register_stake_pool(l.delegation, c.info), LAMBDA r :
                 IF ~IsOk(r) THEN R(r.err, l, NoLog)
                 ELSE R(OkErr, [l EXCEPT !.delegation = r.delegation], NoLog))
         [] c.kind = "StakePoolRetirement" ->
              Bind(deregister_stake_pool(l.delegation, c.pool_id), LAMBDA r :
                 IF ~IsOk(r) THEN R(r.err, l, NoLog)
                 ELSE R(OkErr, [l EXCEPT !.delegation = r.delegation], NoLog))

\* mutation: the transaction stays applied when the content is refused
apply_certificate_tx_kept(l, auth_cert, dyn_params) ==
    IF ~certificate_verify(auth_cert.transaction.extra)
    THEN R(E("CertificateInvalidSignature"), l, NoLog)
    ELSE Bind(apply_transaction(l, auth_cert, dyn_params), LAMBDA r :
            IF ~IsOk(r) THEN r
            ELSE Bind(apply_certificate_content(r.ledger, auth_cert.transaction.extra),
                      LAMBDA c : R(OkErr, c.ledger, r.log)))

apply_certificate(l, auth_cert, dyn_params) ==
    IF ~certificate_verify(auth_cert.transaction.extra)
    THEN R(E("CertificateInvalidSignature"), l, NoLog)
    ELSE Bind(apply_transaction(l, auth_cert, dyn_params), LAMBDA r :
            IF ~IsOk(r) THEN r
            ELSE Bind(apply_certificate_content(r.ledger, auth_cert.transaction.extra),
                      LAMBDA c : R(c.err, c.ledger, r.log)))

Block0Err(s) == [kind |-> "Block0", source |-> s]

\* mutation: a vote that is accepted advances the date of the ledger
apply_fragment_vote_dated(l, ledger_params, content, metadata) ==
    CASE content.tag = "Initial" ->
           R(Block0Err("OnlyMessageReceived"), l, NoLog)
      [] content.tag = "OldUtxoDeclaration" ->
           R(Block0Err("OnlyMessageReceived"), l, NoLog)
      [] content.tag = "Transaction" ->
           apply_transaction(l, content.tx, ledger_params)
      [] content.tag = "UpdateProposal" ->
           apply_update_proposal(l, Hash(content), content.proposal, metadata.block_date)
      [] content.tag = "UpdateVote" ->
           Bind(apply_update_vote(l, content.vote), LAMBDA r :
              IF ~IsOk(r) THEN r
              ELSE R(OkErr, [r.ledger EXCEPT !.date = <<@[1], @[2] + 1>>], r.log))
      [] content.tag = "Certificate" ->
           apply_certificate(l, content.tx, ledger_params)

\* mutation: a declaration of legacy utxos is applied in any block
apply_fragment_old_declared(l, ledger_params, content, metadata) ==
    CASE content.tag = "Initial" ->
           R(Block0Err("OnlyMessageReceived"), l, NoLog)
      [] content.tag = "OldUtxoDeclaration" ->
           R(OkErr, [l EXCEPT !.oldutxos =
                        With(@, Hash(content.decl),
                             [i \in 0..(Len(content.decl.addrs) - 1) |->
                                 [address |-> content.decl.addrs[i + 1][1],
                                  value |-> content.decl.addrs[i + 1][2]]])], NoLog)
      [] content.tag = "Transaction" ->
           apply_transaction(l, content.tx, ledger_params)
      [] content.tag = "UpdateProposal" ->
           apply_update_proposal(l, Hash(content), content.proposal, metadata.block_date)
      [] content.tag = "UpdateVote" ->
           apply_update_vote(l, content.vote)
      [] content.tag = "Certificate" ->
           apply_certificate(l, content.tx, ledger_params)

apply_fragment(l, ledger_params, content, metadata) ==
    CASE content.tag \in {"Initial", "OldUtxoDeclaration"} ->
           R(Block0Err("OnlyMessageReceived"), l, NoLog)
      [] content.tag = "Transaction" ->
           apply_transaction(l, content.tx, ledger_params)
      [] content.tag = "UpdateProposal" ->
           apply_update_proposal(l, Hash(content), content.proposal, metadata.block_date)
      [] content.tag = "UpdateVote" ->
           apply_update_vote(l, content.vote)
      [] content.tag = "Certificate" ->
           apply_certificate(l, content.tx, ledger_params)

\* the loop over the fragments of a block, from fragment i on
RECURSIVE apply_contents_from(_, _, _, _, _, _)
apply_contents_from(l, ledger_params, contents, metadata, i, log) ==
    IF i > Len(contents) THEN R(OkErr, l, log)
    ELSE Bind(apply_fragment(l, ledger_params, contents[i], metadata), LAMBDA r :
            IF ~IsOk(r) THEN R(r.err, l, log)
            ELSE apply_contents_from(r.ledger, ledger_params, contents, metadata,
                                     i + 1, log \o r.log))

\* mutation: the date is checked before the chain length
apply_block_date_first(self, ledger_params, contents, metadata) ==
    LET l0 == [self EXCEPT !.chain_length = self.chain_length + 1]
    IN IF DateLE(metadata.block_date, l0.date)
       THEN R([kind |-> "NonMonotonicDate", block_date |-> metadata.block_date,
               chain_date |-> l0.date], l0, NoLog)
       ELSE IF metadata.chain_length # l0.chain_length
       THEN R([kind |-> "WrongChainLength", actual |-> metadata.chain_length,
               expected |-> l0.chain_length], l0, NoLog)
       ELSE Bind(update_process_proposals(l0.updates, l0.settings, l0.date,
                                          metadata.block_date),
                 LAMBDA p :
            LET l1 == [l0 EXCEPT !.updates = p.updates, !.settings = p.settings]
            IN IF ~IsOk(p) THEN R(p.err, l0, NoLog)
               ELSE Bind(apply_contents_from(l1, ledger_params, contents, metadata,
                                             1, NoLog),
                         LAMBDA r :
                       IF ~IsOk(r) THEN r
                       ELSE R(OkErr,
                              [r.ledger EXCEPT
                                  !.date = metadata.block_date,
                                  !.settings.consensus_nonce =
                                      IF metadata.nonce = None THEN @
                                      ELSE hash_with(@, metadata.nonce[1])],
                              r.log)))

apply_block(self, ledger_params, contents, metadata) ==
    LET l0 == [self EXCEPT !.chain_length = self.chain_length + 1]
    IN IF metadata.chain_length # l0.chain_length
       THEN R([kind |-> "WrongChainLength", actual |-> metadata.chain_length,
               expected |-> l0.chain_length], l0, NoLog)
       ELSE IF DateLE(metadata.block_date, l0.date)
       THEN R([kind |-> "NonMonotonicDate", block_date |-> metadata.block_date,
               chain_date |-> l0.date], l0, NoLog)
       ELSE Bind(update_process_proposals(l0.updates, l0.settings, l0.date,
                                          metadata.block_date),
                 LAMBDA p :
            LET l1 == [l0 EXCEPT !.updates = p.updates, !.settings = p.settings]
            IN IF ~IsOk(p) THEN R(p.err, l0, NoLog)
               ELSE Bind(apply_contents_from(l1, ledger_params, contents, metadata,
                                             1, NoLog),
                         LAMBDA r :
                       IF ~IsOk(r) THEN r
                       ELSE R(OkErr,
                              [r.ledger EXCEPT
                                  !.date = metadata.block_date,
                                  !.settings.consensus_nonce =
                                      IF metadata.nonce = None THEN @
                                      ELSE hash_with(@, metadata.nonce[1])],
                              r.log)))

\* mutation: the totals of the accounts and of the multisig accounts are
\* tested one by one and never added to the utxos
validate_utxo_total_value_each(l) ==
    IF account_total(l.accounts) > MaxValue \/ multisig_total(l.multisig) > MaxValue
    THEN Block0Err("UtxoTotalValueTooBig")
    ELSE OkErr

validate_utxo_total_value(l) ==
    LET old_utxo_values == utxo_total(l.oldutxos)
        new_utxo_values == utxo_total(l.utxos)
        account_value == account_total(l.accounts)
        multisig_value == multisig_total(l.multisig)
    IN IF account_value > MaxValue \/ multisig_value > MaxValue
          \/ old_utxo_values + new_utxo_values + account_value + multisig_value > MaxValue
       THEN Block0Err("UtxoTotalValueTooBig")
       ELSE OkErr

apply_old_declaration(utxos, decl) ==
    IF ~(Len(decl.addrs) < 255)
    THEN [err |-> E("Panic"), utxos |-> utxos]
    ELSE utxo_add(utxos, Hash(decl),
                  [i \in 1..Len(decl.addrs) |->
                      <<AsU8(i - 1), [address |-> decl.addrs[i][1],
                                      value |-> decl.addrs[i][2]]>>])

\* is a parameter tag given in the initial fragment, and the last value given
Has(init_ents, tag) == \E i \in 1..Len(init_ents) : init_ents[i].tag = tag

LastOf(init_ents, tag) ==
    LET at == {i \in 1..Len(init_ents) : init_ents[i].tag = tag}
    IN init_ents[CHOOSE i \in at : \A j \in at : j <= i].value

Block0Tags == {"Block0Date", "Discrimination", "SlotDuration", "SlotsPerEpoch",
               "KESUpdateSpeed"}

RECURSIVE SelectNot(_, _)
SelectNot(s, tags) ==
    IF s = << >> THEN << >>
    ELSE IF Head(s).tag \in tags THEN SelectNot(Tail(s), tags)
    ELSE <<Head(s)>> \o SelectNot(Tail(s), tags)

\* mutation: the witnesses of a fragment of the first block are looked at before
\* its inputs
RECURSIVE new_contents_from_witnesses_first(_, _, _)
new_contents_from_witnesses_first(l, contents, i) ==
    IF i > Len(contents) THEN R(OkErr, l, NoLog)
    ELSE LET content == contents[i]
             next(l1) == new_contents_from_witnesses_first(l1, contents, i + 1)
         IN CASE content.tag = "Initial" -> R(Block0Err("InitialMessageMany"), l, NoLog)
              [] content.tag = "OldUtxoDeclaration" ->
                   Bind(apply_old_declaration(l.oldutxos, content.decl), LAMBDA r :
                      IF ~IsOk(r) THEN R(r.err, l, NoLog)
                      ELSE next([l EXCEPT !.oldutxos = r.utxos]))
              [] content.tag = "Transaction" ->
                   IF Len(content.tx.witnesses) # 0
                   THEN R(Block0Err("TransactionHasWitnesses"), l, NoLog)
                   ELSE IF Len(content.tx.transaction.inputs) # 0
                   THEN R(Block0Err("TransactionHasInput"), l, NoLog)
                   ELSE Bind(internal_apply_transaction_output(
                                 l, l.static_params, Hash(content.tx.transaction),
                                 content.tx.transaction.outputs),
                             LAMBDA r :
                           IF ~IsOk(r) THEN R(r.err, l, NoLog) ELSE next(r.ledger))
              [] content.tag = "UpdateProposal" ->
                   R(Block0Err("HasUpdateProposal"), l, NoLog)
              [] content.tag = "UpdateVote" -> R(Block0Err("HasUpdateVote"), l, NoLog)
              [] content.tag = "Certificate" ->
                   IF Len(content.tx.witnesses) # 0
                   THEN R(Block0Err("TransactionHasWitnesses"), l, NoLog)
                   ELSE IF Len(content.tx.transaction.inputs) # 0
                   THEN R(Block0Err("TransactionHasInput"), l, NoLog)
                   ELSE IF Len(content.tx.transaction.outputs) # 0
                   THEN R(Block0Err("TransactionHasOutput"), l, NoLog)
                   ELSE Bind(apply_certificate_content(l, content.tx.transaction.extra),
                             LAMBDA r :
                           IF ~IsOk(r) THEN R(r.err, l, NoLog) ELSE next(r.ledger))

\* the loop of Ledger::new over the fragments after the first, from fragment i on
RECURSIVE new_contents_from(_, _, _)
new_contents_from(l, contents, i) ==
    IF i > Len(contents) THEN R(OkErr, l, NoLog)
    ELSE LET content == contents[i]
             next(l1) == new_contents_from(l1, contents, i + 1)
         IN CASE content.tag = "Initial" -> R(Block0Err("InitialMessageMany"), l, NoLog)
              [] content.tag = "OldUtxoDeclaration" ->
                   Bind(apply_old_declaration(l.oldutxos, content.decl), LAMBDA r :
                      IF ~IsOk(r) THEN R(r.err, l, NoLog)
                      ELSE next([l EXCEPT !.oldutxos = r.utxos]))
              [] content.tag = "Transaction" ->
                   IF Len(content.tx.transaction.inputs) # 0
                   THEN R(Block0Err("TransactionHasInput"), l, NoLog)
                   ELSE IF Len(content.tx.witnesses) # 0
                   THEN R(Block0Err("TransactionHasWitnesses"), l, NoLog)
                   ELSE Bind(internal_apply_transaction_output(
                                 l, l.static_params, Hash(content.tx.transaction),
                                 content.tx.transaction.outputs),
                             LAMBDA r :
                           IF ~IsOk(r) THEN R(r.err, l, NoLog) ELSE next(r.ledger))
              [] content.tag = "UpdateProposal" ->
                   R(Block0Err("HasUpdateProposal"), l, NoLog)
              [] content.tag = "UpdateVote" -> R(Block0Err("HasUpdateVote"), l, NoLog)
              [] content.tag = "Certificate" ->
                   IF Len(content.tx.transaction.inputs) # 0
                   THEN R(Block0Err("TransactionHasInput"), l, NoLog)
                   ELSE IF Len(content.tx.witnesses) # 0
                   THEN R(Block0Err("TransactionHasWitnesses"), l, NoLog)
                   ELSE IF Len(content.tx.transaction.outputs) # 0
                   THEN R(Block0Err("TransactionHasOutput"), l, NoLog)
                   ELSE Bind(apply_certificate_content(l, content.tx.transaction.extra),
                             LAMBDA r :
                           IF ~IsOk(r) THEN R(r.err, l, NoLog) ELSE next(r.ledger))

NoLedger == [none |-> TRUE]

\* mutation: an empty block gets the error of a block with another first fragment
Ledger_new_one_error(block0_initial_hash, contents) ==
    IF contents = << >> \/ contents[1].tag # "Initial"
    THEN R(E("ExpectingInitialMessage"), NoLedger, NoLog)
    ELSE LET init_ents == contents[1].params
             regular_ents == SelectNot(init_ents, Block0Tags)
             block0_start_time == LastOf(init_ents, "Block0Date")
             discrimination == LastOf(init_ents, "Discrimination")
             slot_duration == LastOf(init_ents, "SlotDuration")
             slots_per_epoch == LastOf(init_ents, "SlotsPerEpoch")
             kes_update_speed == LastOf(init_ents, "KESUpdateSpeed")
             static_params == [block0_initial_hash |-> block0_initial_hash,
                               block0_start_time |-> block0_start_time,
                               discrimination |-> discrimination,
                               kes_update_speed |-> kes_update_speed]
             era == [slot0 |-> block0_start_time, epoch |-> 0,
                     slots_per_epoch |-> slots_per_epoch]
         IN Bind(Settings_apply(Settings_new(era), regular_ents), LAMBDA s :
            IF ~Has(init_ents, "Block0Date")
            THEN R(Block0Err("InitialMessageNoDate"), NoLedger, NoLog)
            ELSE IF ~Has(init_ents, "Discrimination")
            THEN R(Block0Err("InitialMessageNoDiscrimination"), NoLedger, NoLog)
            ELSE IF ~Has(init_ents, "SlotDuration")
            THEN R(Block0Err("InitialMessageNoSlotDuration"), NoLedger, NoLog)
            ELSE IF ~Has(init_ents, "SlotsPerEpoch")
            THEN R(Block0Err("InitialMessageNoSlotsPerEpoch"), NoLedger, NoLog)
            ELSE IF ~Has(init_ents, "KESUpdateSpeed")
            THEN R(Block0Err("InitialMessageNoKesUpdateSpeed"), NoLedger, NoLog)
            ELSE IF ~IsOk(s) THEN R(s.err, NoLedger, NoLog)
            ELSE IF s.settings.bft_leaders = << >>
            THEN R(Block0Err("InitialMessageNoConsensusLeaderId"), NoLedger, NoLog)
            ELSE Bind(new_contents_from(Ledger_empty(s.settings, static_params),
                                        contents, 2),
                      LAMBDA r :
                 IF ~IsOk(r) THEN R(r.err, NoLedger, NoLog)
                 ELSE Bind(validate_utxo_total_value(r.ledger), LAMBDA v :
                         IF v # OkErr THEN R(v, NoLedger, NoLog)
                         ELSE R(OkErr, r.ledger, NoLog))))

\* mutation: the discrimination is looked for before the date
Ledger_new_discrimination_first(block0_initial_hash, contents) ==
    IF contents = << >> THEN R(Block0Err("InitialMessageMissing"), NoLedger, NoLog)
    ELSE IF contents[1].tag # "Initial"
    THEN R(E("ExpectingInitialMessage"), NoLedger, NoLog)
    ELSE LET init_ents == contents[1].params
             regular_ents == SelectNot(init_ents, Block0Tags)
             block0_start_time == LastOf(init_ents, "Block0Date")
             discrimination == LastOf(init_ents, "Discrimination")
             slot_duration == LastOf(init_ents, "SlotDuration")
             slots_per_epoch == LastOf(init_ents, "SlotsPerEpoch")
             kes_update_speed == LastOf(init_ents, "KESUpdateSpeed")
             static_params == [block0_initial_hash |-> block0_initial_hash,
                               block0_start_time |-> block0_start_time,
                               discrimination |-> discrimination,
                               kes_update_speed |-> kes_update_speed]
             era == [slot0 |-> block0_start_time, epoch |-> 0,
                     slots_per_epoch |-> slots_per_epoch]
         IN Bind(Settings_apply(Settings_new(era), regular_ents), LAMBDA s :
            IF ~Has(init_ents, "Discrimination")
            THEN R(Block0Err("InitialMessageNoDiscrimination"), NoLedger, NoLog)
            ELSE IF ~Has(init_ents, "Block0Date")
            THEN R(Block0Err("InitialMessageNoDate"), NoLedger, NoLog)
            ELSE IF ~Has(init_ents, "SlotDuration")
            THEN R(Block0Err("InitialMessageNoSlotDuration"), NoLedger, NoLog)
            ELSE IF ~Has(init_ents, "SlotsPerEpoch")
            THEN R(Block0Err("InitialMessageNoSlotsPerEpoch"), NoLedger, NoLog)
            ELSE IF ~Has(init_ents, "KESUpdateSpeed")
            THEN R(Block0Err("InitialMessageNoKesUpdateSpeed"), NoLedger, NoLog)
            ELSE IF ~IsOk(s) THEN R(s.err, NoLedger, NoLog)
            ELSE IF s.settings.bft_leaders = << >>
            THEN R(Block0Err("InitialMessageNoConsensusLeaderId"), NoLedger, NoLog)
            ELSE Bind(new_contents_from(Ledger_empty(s.settings, static_params),
                                        contents, 2),
                      LAMBDA r :
                 IF ~IsOk(r) THEN R(r.err, NoLedger, NoLog)
                 ELSE Bind(validate_utxo_total_value(r.ledger), LAMBDA v :
                         IF v # OkErr THEN R(v, NoLedger, NoLog)
                         ELSE R(OkErr, r.ledger, NoLog))))

Ledger_new(block0_initial_hash, contents) ==
    IF contents = << >> THEN R(Block0Err("InitialMessageMissing"), NoLedger, NoLog)
    ELSE IF contents[1].tag # "Initial"
    THEN R(E("ExpectingInitialMessage"), NoLedger, NoLog)
    ELSE LET init_ents == contents[1].params
             regular_ents == SelectNot(init_ents, Block0Tags)
             block0_start_time == LastOf(init_ents, "Block0Date")
             discrimination == LastOf(init_ents, "Discrimination")
             slot_duration == LastOf(init_ents, "SlotDuration")
             slots_per_epoch == LastOf(init_ents, "SlotsPerEpoch")
             kes_update_speed == LastOf(init_ents, "KESUpdateSpeed")
             static_params == [block0_initial_hash |-> block0_initial_hash,
                               block0_start_time |-> block0_start_time,
                               discrimination |-> discrimination,
                               kes_update_speed |-> kes_update_speed]
             era == [slot0 |-> block0_start_time, epoch |-> 0,
                     slots_per_epoch |-> slots_per_epoch]
         IN Bind(Settings_apply(Settings_new(era), regular_ents), LAMBDA s :
            IF ~Has(init_ents, "Block0Date")
            THEN R(Block0Err("InitialMessageNoDate"), NoLedger, NoLog)
            ELSE IF ~Has(init_ents, "Discrimination")
            THEN R(Block0Err("InitialMessageNoDiscrimination"), NoLedger, NoLog)
            ELSE IF ~Has(init_ents, "SlotDuration")
            THEN R(Block0Err("InitialMessageNoSlotDuration"), NoLedger, NoLog)
            ELSE IF ~Has(init_ents, "SlotsPerEpoch")
            THEN R(Block0Err("InitialMessageNoSlotsPerEpoch"), NoLedger, NoLog)
            ELSE IF ~Has(init_ents, "KESUpdateSpeed")
            THEN R(Block0Err("InitialMessageNoKesUpdateSpeed"), NoLedger, NoLog)
            ELSE IF ~IsOk(s) THEN R(s.err, NoLedger, NoLog)
            ELSE IF s.settings.bft_leaders = << >>
            THEN R(Block0Err("InitialMessageNoConsensusLeaderId"), NoLedger, NoLog)
            ELSE Bind(new_contents_from(Ledger_empty(s.settings, static_params),
                                        contents, 2),
                      LAMBDA r :
                 IF ~IsOk(r) THEN R(r.err, NoLedger, NoLog)
                 ELSE Bind(validate_utxo_total_value(r.ledger), LAMBDA v :
                         IF v # OkErr THEN R(v, NoLedger, NoLog)
                         ELSE R(OkErr, r.ledger, NoLog))))

\* apply_block in the steps a caller goes through.  First step: the clone of
\* self, the checks of the header and process_proposals
apply_block_begin(self, metadata) ==
    LET l0 == [self EXCEPT !.chain_length = self.chain_length + 1]
    IN IF metadata.chain_length # l0.chain_length
       THEN R([kind |-> "WrongChainLength", actual |-> metadata.chain_length,
               expected |-> l0.chain_length], l0, NoLog)
       ELSE IF DateLE(metadata.block_date, l0.date)
       THEN R([kind |-> "NonMonotonicDate", block_date |-> metadata.block_date,
               chain_date |-> l0.date], l0, NoLog)
       ELSE Bind(update_process_proposals(l0.updates, l0.settings, l0.date,
                                          metadata.block_date),
                 LAMBDA p :
            IF ~IsOk(p) THEN R(p.err, l0, NoLog)
            ELSE R(OkErr, [l0 EXCEPT !.updates = p.updates, !.settings = p.settings],
                   NoLog))

\* last step: the date of the block and the nonce of its header
apply_block_end(new_ledger, metadata) ==
    [new_ledger EXCEPT
        !.date = metadata.block_date,
        !.settings.consensus_nonce =
            IF metadata.nonce = None THEN @ ELSE hash_with(@, metadata.nonce[1])]

\* mutation: a call that ends writes its ledger to self
self_after_end(self, new_ledger) ==
    IF new_ledger.date = self.date THEN self ELSE new_ledger

\* mutation: the call works on self
self_after_in_place(self, new_ledger) == new_ledger

\* self after a step of a call that holds the working copy new_ledger:
\* apply_block borrows self (&self) and writes to its clone only
self_after(self, new_ledger) == self

\* one step of a call of apply_block on self: the call after the step and
\* its working copy
call_step(self, c) ==
    CASE c.pc = "start" ->
           Bind(apply_block_begin(self, c.metadata), LAMBDA r :
              [work |-> r.ledger,
               call |-> IF IsOk(r) THEN [c EXCEPT !.pc = "loop", !.new_ledger = r.ledger]
                        ELSE [c EXCEPT !.pc = "done", !.err = r.err]])
      [] c.pc = "loop" /\ c.k <= Len(c.contents) ->
           Bind(apply_fragment(c.new_ledger, [fees |-> c.fees], c.contents[c.k], c.metadata),
                LAMBDA r :
              [work |-> IF IsOk(r) THEN r.ledger ELSE c.new_ledger,
               call |-> IF IsOk(r) THEN [c EXCEPT !.k = @ + 1, !.new_ledger = r.ledger]
                        ELSE [c EXCEPT !.pc = "done", !.err = r.err,
                                       !.new_ledger = NoLedger]])
      [] c.pc = "loop" /\ c.k > Len(c.contents) ->
           [work |-> apply_block_end(c.new_ledger, c.metadata),
            call |-> [c EXCEPT !.pc = "done",
                               !.new_ledger = apply_block_end(c.new_ledger, c.metadata)]]

(***************************************************************************)
(* The inputs offered to the operations: keys, a genesis block, and the    *)
(* fragments and blocks built on it.                                       *)
(***************************************************************************)
K1 == <<"key", "k1">>
K2 == <<"key", "k2">>
M1 == <<"bytes", "m1">>
X1 == <<"xpub", "x1">>
X2 == <<"xpub", "x2">>

Block0Hash == Hash("block0")

Production == "Production"
Test == "Test"

Single(d, key) == [discrimination |-> d, kind |-> "Single", spending |-> key, account |-> key]
Group(d, key, acct) ==
    [discrimination |-> d, kind |-> "Group", spending |-> key, account |-> acct]
Account(d, key) == [discrimination |-> d, kind |-> "Account", spending |-> key, account |-> key]
Multisig(d, id) == [discrimination |-> d, kind |-> "Multisig", spending |-> id, account |-> id]

Out(address, value) == [address |-> address, value |-> value]

UtxoIn(tx, index, value) ==
    [kind |-> "Utxo", value |-> value, account |-> K1,
     utxo |-> [transaction_id |-> Hash(tx), output_index |-> index, value |-> value]]

AcctIn(id, value) ==
    [kind |-> "Account", value |-> value, account |-> id,
     utxo |-> [transaction_id |-> Hash("none"), output_index |-> 0, value |-> value]]

Tx(inputs, outputs) == [inputs |-> inputs, outputs |-> outputs, extra |-> NoExtra]

WUtxo(key, tx) ==
    [kind |-> "Utxo", xpub |-> key, sig |-> Sign(key, WitnessUtxoData(Block0Hash, Hash(tx)))]
WOld(xpub, tx) ==
    [kind |-> "OldUtxo", xpub |-> xpub,
     sig |-> Sign(xpub, WitnessUtxoData(Block0Hash, Hash(tx)))]
WAcct(key, tx, sc) ==
    [kind |-> "Account", xpub |-> key,
     sig |-> Sign(key, WitnessAccountData(Block0Hash, Hash(tx), sc))]
WMulti(key, tx, sc) ==
    [kind |-> "Multisig", xpub |-> key,
     sig |-> {<<1, Sign(key, WitnessMultisigData(Block0Hash, Hash(tx), sc))>>}]

TxMsg(tx, witnesses) ==
    [tag |-> "Transaction", tx |-> [transaction |-> tx, witnesses |-> witnesses]]

Param(tag, value) == [tag |-> tag, value |-> value]

InitialParams ==
    <<Param("Discrimination", Production), Param("Block0Date", 1000),
      Param("ConsensusVersion", "Bft"), Param("SlotsPerEpoch", 100), Param("SlotDuration", 10),
      Param("AddBftLeader", K1), Param("LinearFee", LinearFee(0, 0, 0)),
      Param("ProposalExpiration", 1), Param("KESUpdateSpeed", 3600)>>

\* genesis: account K1 holds 4, a utxo of K2 holds 2, a legacy utxo holds 2
GT1 == Tx(<< >>, <<Out(Account(Production, K1), 4), Out(Single(Production, K2), 2)>>)
OD1 == [addrs |-> <<<<OldAddressOf(X1), 2>>>>]

Block0 ==
    <<[tag |-> "Initial", params |-> InitialParams],
      TxMsg(GT1, << >>),
      [tag |-> "OldUtxoDeclaration", decl |-> OD1]>>

\* transactions on that genesis
\* K1 pays 2 to K2 (balanced when the fee is 0)
T1 == Tx(<<AcctIn(K1, 2)>>, <<Out(Account(Production, K2), 2)>>)
\* K1 pays 1 to a new utxo and 1 of fee
T2 == Tx(<<AcctIn(K1, 2)>>, <<Out(Single(Production, K1), 1)>>)
\* two inputs from the same account
T3 == Tx(<<AcctIn(K1, 1), AcctIn(K1, 1)>>, <<Out(Account(Production, K2), 2)>>)
\* the genesis utxo goes to K2's account
T4 == Tx(<<UtxoIn(GT1, 1, 2)>>, <<Out(Account(Production, K2), 2)>>)
\* two spenders of T2's utxo
T5 == Tx(<<UtxoIn(T2, 0, 1)>>, <<Out(Account(Production, K1), 1)>>)
T5b == Tx(<<UtxoIn(T2, 0, 1)>>, <<Out(Account(Production, K2), 1)>>)
\* the same pointer twice
T6 == Tx(<<UtxoIn(GT1, 1, 2), UtxoIn(GT1, 1, 2)>>, <<Out(Account(Production, K2), 4)>>)
\* the legacy utxo goes to a new utxo
T7 == Tx(<<UtxoIn(OD1, 0, 2)>>, <<Out(Single(Production, K1), 2)>>)
\* a utxo input, then an account input
T8 == Tx(<<UtxoIn(GT1, 1, 2), AcctIn(K1, 2)>>, <<Out(Account(Production, K2), 4)>>)
\* the second output is refused (no such multisig account)
T9 == Tx(<<AcctIn(K1, 2)>>,
         <<Out(Account(Production, K2), 1), Out(Multisig(Production, M1), 1)>>)
\* inputs 2, outputs 1: balanced only when the fee is 1
T10 == Tx(<<AcctIn(K1, 2)>>, <<Out(Account(Production, K2), 1)>>)
\* K2 pays back
T12 == Tx(<<AcctIn(K2, 1)>>, <<Out(Account(Production, K1), 1)>>)

Counters == 0..1

TxFragments ==
    {TxMsg(T1, <<WAcct(K1, T1, c)>>) : c \in Counters}
    \cup {TxMsg(T1, <<WAcct(K2, T1, 0)>>), TxMsg(T1, <<WUtxo(K1, T1)>>)}
    \cup {TxMsg(T2, <<WAcct(K1, T2, c)>>) : c \in Counters}
    \cup {TxMsg(T3, <<WAcct(K1, T3, 0), WAcct(K1, T3, 1)>>),
          TxMsg(T3, <<WAcct(K1, T3, 0), WAcct(K1, T3, 0)>>),
          TxMsg(T3, <<WAcct(K1, T3, 1), WAcct(K1, T3, 2)>>)}
    \cup {TxMsg(T4, <<WUtxo(K2, T4)>>), TxMsg(T4, <<WUtxo(K1, T4)>>),
          TxMsg(T4, <<WAcct(K2, T4, 0)>>)}
    \cup {TxMsg(T5, <<WUtxo(K1, T5)>>), TxMsg(T5b, <<WUtxo(K1, T5b)>>)}
    \cup {TxMsg(T6, <<WUtxo(K2, T6), WUtxo(K2, T6)>>)}
    \cup {TxMsg(T7, <<WOld(X1, T7)>>), TxMsg(T7, <<WOld(X2, T7)>>)}
    \cup {TxMsg(T8, <<WUtxo(K2, T8), WAcct(K1, T8, 0)>>),
          TxMsg(T8, <<WUtxo(K2, T8), WAcct(K2, T8, 0)>>)}
    \cup {TxMsg(T9, <<WAcct(K1, T9, 0)>>)}
    \cup {TxMsg(T10, <<WAcct(K1, T10, c)>>) : c \in Counters}
    \cup {TxMsg(T12, <<WAcct(K2, T12, 0)>>)}

\* blocks of two fragments
TxPairs ==
    {<<TxMsg(T2, <<WAcct(K1, T2, 0)>>), TxMsg(T5, <<WUtxo(K1, T5)>>)>>,
     <<TxMsg(T2, <<WAcct(K1, T2, 1)>>), TxMsg(T5b, <<WUtxo(K1, T5b)>>)>>,
     <<TxMsg(T1, <<WAcct(K1, T1, 0)>>), TxMsg(T1, <<WAcct(K1, T1, 0)>>)>>,
     <<TxMsg(T1, <<WAcct(K1, T1, 0)>>), TxMsg(T10, <<WAcct(K1, T10, 1)>>)>>,
     <<TxMsg(T4, <<WUtxo(K2, T4)>>), TxMsg(T12, <<WAcct(K2, T12, 0)>>)>>,
     <<TxMsg(T1, <<WAcct(K1, T1, 0)>>), TxMsg(T9, <<WAcct(K1, T9, 1)>>)>>,
     <<TxMsg(T8, <<WUtxo(K2, T8), WAcct(K1, T8, 0)>>), TxMsg(T6, <<WUtxo(K2, T6), WUtxo(K2, T6)>>)>>}

FeeChoices == {[fees |-> LinearFee(0, 0, 0)], [fees |-> LinearFee(1, 0, 0)]}

Slots == {0, 1}

Dates == (0..MaxEpoch) \X Slots

Header(chain_length, block_date, nonce) ==
    [chain_length |-> chain_length, block_date |-> block_date, nonce |-> nonce]

\* a BFT block carries no nonce, a Praos block carries one
Nonces == {None, Some("n1")}

BlockContents == {<< >>} \cup {<<f>> : f \in TxFragments} \cup TxPairs

\* governance fragments; serial orders the proposals' ids
Proposal(serial, proposer, changes) ==
    [tag |-> "UpdateProposal", serial |-> serial,
     proposal |-> [proposer_id |-> proposer,
                   proposal |-> [changes |-> changes],
                   signature |-> Sign(proposer, [changes |-> changes])]]

Vote(proposal, voter) ==
    [tag |-> "UpdateVote",
     vote |-> [vote |-> [proposal_id |-> Hash(proposal), voter_id |-> voter],
               signature |-> Sign(voter, [proposal_id |-> Hash(proposal),
                                          voter_id |-> voter])]]

\* a change the settings refuse, a fee change, and a proposal of a non-leader
PBad == Proposal(1, K1, <<Param("ConsensusGenesisPraosActiveSlotsCoeff", [milli |-> 0])>>)
PFee == Proposal(2, K1, <<Param("LinearFee", LinearFee(1, 0, 0))>>)
PK2 == Proposal(3, K2, <<Param("LinearFee", LinearFee(1, 0, 0))>>)

GovFragments ==
    {PBad, PFee, PK2, Vote(PBad, K1), Vote(PFee, K1), TxMsg(T1, <<WAcct(K1, T1, 0)>>)}

GovContents ==
    {<< >>} \cup {<<f>> : f \in GovFragments}
    \cup {<<PFee, Vote(PBad, K1)>>,
          <<TxMsg(T1, <<WAcct(K1, T1, 0)>>), Vote(PK2, K1)>>,
          <<TxMsg(T1, <<WAcct(K1, T1, 0)>>), TxMsg(T10, <<WAcct(K1, T10, 0)>>)>>}

(***************************************************************************)
(* The state machine.  ledger is the snapshot the caller holds.  ret is    *)
(* Idle, or what the call in progress was given and what it returned,      *)
(* until the caller goes on: the operation, its arguments, the snapshot it *)
(* was called on and the error ("Ok" when a ledger was returned).  hist    *)
(* is the history of the accepted fragments: the fees they paid, the       *)
(* blocks applied, how often each utxo pointer was created and how often   *)
(* it was consumed, and how often each transaction was accepted.           *)
(***************************************************************************)
Idle == [op |-> "idle"]

Returned(op, ledger_params, contents, metadata, self, r) ==
    [op |-> op, fees |-> ledger_params.fees, contents |-> contents,
     metadata |-> metadata, self |-> self, err |-> r.err]

\* mutation: the operations work on self in place
Commit_in_place(self, r) == r.ledger

\* both operations take &self and work on a clone: the caller holds the
\* returned ledger after Ok and still holds self after Err
Commit(self, r) == IF IsOk(r) THEN r.ledger ELSE self

\* ------------------------------------------------------------- history
IsTx(f) == f.tag \in {"Transaction", "Certificate"}

FeeOf(fees, f) == IF IsTx(f) THEN fee_calculate(fees, f.tx.transaction).value ELSE 0

\* the pointer an input consumes: the witness kind selects the sub-ledger
PointerOf(input, witness) ==
    <<IF witness.kind = "OldUtxo" THEN "oldutxos" ELSE "utxos",
      input.utxo.transaction_id, input.utxo.output_index>>

UtxoInputs(f) ==
    IF IsTx(f) THEN {i \in 1..Len(f.tx.transaction.inputs) :
                        f.tx.transaction.inputs[i].kind = "Utxo"}
    ELSE {}

ConsumedBy(f, p) ==
    Cardinality({i \in UtxoInputs(f) :
                    PointerOf(f.tx.transaction.inputs[i], f.tx.witnesses[i]) = p})

UtxoOutputs(f) ==
    IF IsTx(f) THEN {i \in 1..Len(f.tx.transaction.outputs) :
                        f.tx.transaction.outputs[i].address.kind \in {"Single", "Group"}}
    ELSE {}

CreatedBy(f) == {<<"utxos", Hash(f.tx.transaction), i - 1>> : i \in UtxoOutputs(f)}

Count(bag, p) == IF p \in DOMAIN bag THEN bag[p] ELSE 0

RECURSIVE Record(_, _, _, _)
Record(h, fees, contents, i) ==
    IF i > Len(contents) THEN h
    ELSE LET f == contents[i]
             used == {PointerOf(f.tx.transaction.inputs[k], f.tx.witnesses[k]) :
                         k \in UtxoInputs(f)}
             made == CreatedBy(f)
         IN Record([burned |-> h.burned + FeeOf(fees, f),
                    blocks |-> h.blocks,
                    created |-> [p \in DOMAIN h.created \cup made |->
                                    Count(h.created, p) + IF p \in made THEN 1 ELSE 0],
                    consumed |-> [p \in DOMAIN h.consumed \cup used |->
                                     Count(h.consumed, p) + ConsumedBy(f, p)],
                    accepted |-> IF IsTx(f)
                                 THEN [g \in DOMAIN h.accepted \cup {f} |->
                                          Count(h.accepted, g) + IF g = f THEN 1 ELSE 0]
                                 ELSE h.accepted],
                   fees, contents, i + 1)

Pointers(l) ==
    {<<"utxos", p[1], p[2]>> : p \in utxo_iter(l.utxos)}
    \cup {<<"oldutxos", p[1], p[2]>> : p \in utxo_iter(l.oldutxos)}

TotalValue(l) ==
    utxo_total(l.oldutxos) + utxo_total(l.utxos) + account_total(l.accounts)
        + multisig_total(l.multisig)

Genesis == Ledger_new(Block0Hash, Block0).ledger

Init ==
    /\ ledger = Genesis
    /\ ret = Idle
    /\ hist = [burned |-> 0, blocks |-> 0,
               created |-> [p \in Pointers(Genesis) |-> 1],
               consumed |-> EmptyMap, accepted |-> EmptyMap]

ApplyBlock(ledger_params, contents, metadata) ==
    /\ ret = Idle
    /\ \E r \in {apply_block(ledger, ledger_params, contents, metadata)} :
          /\ ledger' = Commit(ledger, r)
          /\ ret' = Returned("apply_block", ledger_params, contents, metadata, ledger, r)
          /\ hist' = IF IsOk(r)
                     THEN Record([hist EXCEPT !.blocks = @ + 1], ledger_params.fees,
                                 contents, 1)
                     ELSE hist

ApplyFragment(ledger_params, content, metadata) ==
    /\ ret = Idle
    /\ \E r \in {apply_fragment(ledger, ledger_params, content, metadata)} :
          /\ ledger' = Commit(ledger, r)
          /\ ret' = Returned("apply_fragment", ledger_params, <<content>>, metadata,
                             ledger, r)
          /\ hist' = IF IsOk(r) THEN Record(hist, ledger_params.fees, <<content>>, 1)
                     ELSE hist

\* the caller has looked at the result
Continue ==
    /\ ret # Idle
    /\ ret' = Idle
    /\ UNCHANGED <<ledger, hist>>

HeaderOf(l) == Header(l.chain_length, l.date, None)

\* the dates a block producer gives the next block: the next slot of the
\* epoch, or the first slot of the next epoch
LaterDates(date) ==
    {d \in Dates : \/ d[1] = date[1] /\ d[2] = date[2] + 1
                   \/ d[1] = date[1] + 1 /\ d[2] = 0}

Next ==
    \/ \E p \in FeeChoices, c \in BlockContents, d \in LaterDates(ledger.date) :
          ApplyBlock(p, c, Header(ledger.chain_length + 1, d, None))
    \/ \E p \in FeeChoices, d \in Dates, n \in (ledger.chain_length)..(ledger.chain_length + 2) :
          ApplyBlock(p, << >>, Header(n, d, None))
    \/ \E p \in FeeChoices, f \in TxFragments : ApplyFragment(p, f, HeaderOf(ledger))
    \/ Continue

Spec == Init /\ [][Next]_vars

\* the same operations, offered the governance fragments
NextGov ==
    \/ \E p \in FeeChoices, c \in GovContents, d \in LaterDates(ledger.date) :
          ApplyBlock(p, c, Header(ledger.chain_length + 1, d, None))
    \/ \E p \in FeeChoices, d \in Dates, n \in (ledger.chain_length)..(ledger.chain_length + 2),
          nonce \in Nonces :
          ApplyBlock(p, << >>, Header(n, d, nonce))
    \/ \E p \in FeeChoices, f \in GovFragments : ApplyFragment(p, f, HeaderOf(ledger))
    \/ Continue

SpecGov == Init /\ [][NextGov]_vars

(***************************************************************************)
(* What the properties say about the call the caller is looking at.        *)
(***************************************************************************)
\* the call recomputed: its error, the working copy and the log
LastResult ==
    IF ret.op = "apply_block"
    THEN apply_block(ret.self, [fees |-> ret.fees], ret.contents, ret.metadata)
    ELSE apply_fragment(ret.self, [fees |-> ret.fees], ret.contents[1], ret.metadata)

\* one transaction was applied to ret.self: by apply_fragment, or by
\* apply_block as the only fragment of a block that passed the header checks
OneTx ==
    /\ ret # Idle
    /\ Len(ret.contents) = 1
    /\ ret.contents[1].tag = "Transaction"
    /\ ret.op = "apply_block" =>
          ret.err.kind \notin {"WrongChainLength", "NonMonotonicDate"}

TheTx == ret.contents[1].tx

TheTxId == Hash(TheTx.transaction)

TheFee == fee_calculate(ret.fees, TheTx.transaction).value

\* the ledger the k-th input of the transaction is verified on
InputsBefore(k) ==
    apply_inputs_from(ret.self, TheTxId, SubSeq(TheTx.transaction.inputs, 1, k - 1),
                      SubSeq(TheTx.witnesses, 1, k - 1), 1, NoLog)

InputsDone == InputsBefore(Len(TheTx.transaction.inputs) + 1)

\* the sums the balance check is about
SumOfInputs ==
    SumSeq([i \in 1..Len(TheTx.transaction.inputs) |-> TheTx.transaction.inputs[i].value])

SumOfOutputs ==
    SumSeq([i \in 1..Len(TheTx.transaction.outputs) |-> TheTx.transaction.outputs[i].value])

\* the value-bearing parts of two ledgers are the same
SameHoldings(a, b) ==
    /\ a.utxos = b.utxos
    /\ a.oldutxos = b.oldutxos
    /\ a.accounts = b.accounts
    /\ a.multisig = b.multisig

\* C1: when apply_block returns an error (chain length, date,
\* process_proposals or a fragment), the snapshot it was called on is what the
\* caller still holds, equal in every field, and nothing of the fragments that
\* succeeded before the failing one is in it.
C1_BlockErrorLeavesSnapshot ==
    (ret.op = "apply_block" /\ ~IsOk(ret)) =>
        /\ ledger = ret.self
        /\ \A field \in DOMAIN ret.self : ledger[field] = ret.self[field]

\* a block failed at its second fragment, after the first had changed the
\* accounts of the working copy
C1_Witness ==
    /\ ret.op = "apply_block"
    /\ ~IsOk(ret)
    /\ Len(ret.contents) = 2
    /\ LastResult.ledger.accounts # ret.self.accounts
    /\ ledger = ret.self

\* C2: a Transaction fragment is all-or-nothing: when a check fails after
\* inputs were consumed (an input does not verify, the balance check fails, an
\* output is refused) the caller gets an error and the ledger still holds
\* every utxo, account, multisig balance and counter of before.
C2_TransactionAllOrNothing ==
    (ret.op = "apply_fragment" /\ ret.contents[1].tag = "Transaction") =>
        LET ro == internal_apply_transaction_output(
                      InputsDone.ledger, ret.self.static_params, TheTxId,
                      TheTx.transaction.outputs)
            check_fails ==
                \/ ~IsOk(InputsDone)
                \/ SumOfInputs # SumOfOutputs + TheFee
                \/ ~IsOk(ro)
        IN /\ check_fails => ~IsOk(ret)
           /\ ~IsOk(ret) => ledger = ret.self /\ SameHoldings(ledger, ret.self)

\* the second input did not verify after the first had been taken from the
\* utxos of the working copy
C2_Witness ==
    /\ ret.op = "apply_fragment"
    /\ ret.contents[1].tag = "Transaction"
    /\ ~IsOk(ret)
    /\ Len(TheTx.transaction.inputs) = 2
    /\ IsOk(InputsBefore(2))
    /\ InputsBefore(2).ledger.utxos # ret.self.utxos
    /\ ~IsOk(InputsDone)
    /\ ledger = ret.self

\* C3: the values held in old utxos, utxos, accounts and multisig accounts
\* sum to the genesis total minus the fees of the accepted transactions.
C3_ValueConserved == TotalValue(ledger) = TotalValue(Genesis) - hist.burned

\* two blocks were applied and fees were paid
C3_Witness ==
    /\ hist.blocks >= 2
    /\ hist.burned >= 2
    /\ TotalValue(ledger) < TotalValue(Genesis)

NotFound == [kind |-> "UtxoError", source |-> "NotFound"]

UtxoInputsOfTheTx == UtxoInputs(ret.contents[1])

\* the pointer of the k-th input, in the sub-ledger its witness selects
ThePointer(k) == PointerOf(TheTx.transaction.inputs[k], TheTx.witnesses[k])

\* the k-th input points to nothing in utxos and nothing in old utxos
PointsToNothing(k) ==
    LET input == TheTx.transaction.inputs[k]
    IN \A sub \in {"utxos", "oldutxos"} :
           <<sub, input.utxo.transaction_id, input.utxo.output_index>>
               \notin Pointers(InputsBefore(k).ledger)

\* C5 as it is stated: a pointer (transaction id, output index) of utxos or
\* old utxos is consumed by at most one accepted input, and an input pointing
\* to a spent or absent utxo fails with UtxoError NotFound, also as the second
\* occurrence of a pointer in one transaction.
C5_Original ==
    /\ \A p \in DOMAIN hist.consumed : hist.consumed[p] <= 1
    /\ OneTx =>
          \A k \in UtxoInputsOfTheTx :
              (k <= Len(TheTx.witnesses) /\ IsOk(InputsBefore(k)) /\ PointsToNothing(k)) =>
                  ret.err = NotFound

\* C5: each time an entry of utxos or old utxos is created it is consumed by
\* at most one accepted input, and its pointer is consumed again only after an
\* accepted transaction of the same id created the entry again; an input with
\* a Utxo or OldUtxo witness pointing to an entry absent from the sub-ledger
\* its witness selects fails with UtxoError NotFound, also as the second
\* occurrence of a pointer in one transaction, and the ledger is unchanged.
C5_ConsumedOncePerCreation ==
    /\ \A p \in DOMAIN hist.created \cup DOMAIN hist.consumed :
          Count(hist.created, p) =
              Count(hist.consumed, p) + IF p \in Pointers(ledger) THEN 1 ELSE 0
    /\ Pointers(ledger) \subseteq DOMAIN hist.created
    /\ OneTx =>
          \A k \in UtxoInputsOfTheTx :
              (/\ k <= Len(TheTx.witnesses)
               /\ IsOk(InputsBefore(k))
               /\ TheTx.witnesses[k].kind \in {"Utxo", "OldUtxo"}
               /\ ThePointer(k) \notin Pointers(InputsBefore(k).ledger)) =>
                  /\ ret.err = NotFound
                  /\ SameHoldings(ledger, ret.self)

\* an input points to a utxo that an accepted input had consumed, and fails
C5_Witness ==
    /\ OneTx
    /\ ret.err = NotFound
    /\ \E k \in UtxoInputsOfTheTx :
          /\ IsOk(InputsBefore(k))
          /\ Count(hist.consumed, ThePointer(k)) = 1
          /\ ThePointer(k) \notin Pointers(ret.self)
    /\ ledger = ret.self

AccountInputs(f) ==
    {i \in 1..Len(f.tx.transaction.inputs) : f.tx.transaction.inputs[i].kind = "Account"}

\* every account f spends from holds, in l, at least what f takes from it
EnoughBalance(f, l) ==
    \A i \in AccountInputs(f) :
        LET a == f.tx.transaction.inputs[i].account
            taken == {j \in AccountInputs(f) : f.tx.transaction.inputs[j].account = a}
        IN /\ a \in DOMAIN l.accounts
           /\ l.accounts[a].value >= SumOver([j \in taken |-> f.tx.transaction.inputs[j].value],
                                             taken)

\* the call applied again a transaction that had been accepted
Replayed == OneTx /\ ~IsOk(ret) /\ ret.contents[1] \in DOMAIN hist.accepted

\* C6 as it is stated: a transaction that spends from an account is accepted
\* once; applied again unchanged it is rejected, with AccountInvalidSignature
\* when the account still has enough balance.
C6_Original ==
    /\ \A f \in DOMAIN hist.accepted : AccountInputs(f) # {} => hist.accepted[f] = 1
    /\ (Replayed /\ AccountInputs(ret.contents[1]) # {}
          /\ EnoughBalance(ret.contents[1], ret.self)) =>
              ret.err.kind = "AccountInvalidSignature"

\* C6: a transaction that spends from an account is accepted once; applied
\* again unchanged it is rejected, with AccountInvalidSignature of that
\* account when its first input spends from the account and the account still
\* has enough balance for it (a transaction whose earlier input is a spent
\* utxo fails on that input first).
C6_ReplayRejected ==
    /\ \A f \in DOMAIN hist.accepted : AccountInputs(f) # {} => hist.accepted[f] = 1
    /\ (Replayed /\ TheTx.transaction.inputs[1].kind = "Account") =>
          LET a == TheTx.transaction.inputs[1].account
          IN (a \in DOMAIN ret.self.accounts
                /\ ret.self.accounts[a].value >= TheTx.transaction.inputs[1].value) =>
                    /\ ret.err = [kind |-> "AccountInvalidSignature", account |-> a]
                    /\ ~Verify(TheTx.witnesses[1].sig, a,
                               WitnessAccountData(
                                   ret.self.static_params.block0_initial_hash, TheTxId,
                                   ret.self.accounts[a].counter))
                    /\ ledger = ret.self

\* an accepted transaction from an account was applied again and refused for
\* its signature
C6_Witness ==
    /\ Replayed
    /\ TheTx.transaction.inputs[1].kind = "Account"
    /\ hist.accepted[ret.contents[1]] = 1
    /\ ret.err.kind = "AccountInvalidSignature"
    /\ ret.self.accounts[TheTx.transaction.inputs[1].account].counter > 0
    /\ ledger = ret.self

AccountInputsOfTheTx == AccountInputs(ret.contents[1])

\* the inputs of the transaction that name account a
Naming(a) == {k \in AccountInputsOfTheTx : TheTx.transaction.inputs[k].account = a}

\* C7: for every account input of an accepted transaction, the account's
\* counter after the input is its counter before plus one, its balance is
\* reduced by the input's value, and the verified signature covers (block0
\* hash, transaction id, counter before the increment); accounts that no input
\* names keep their counter.
C7_CounterPerInput ==
    (OneTx /\ IsOk(ret)) =>
        /\ \A k \in AccountInputsOfTheTx :
              LET a == TheTx.transaction.inputs[k].account
                  before == InputsBefore(k).ledger.accounts[a]
                  after == InputsBefore(k + 1).ledger.accounts[a]
              IN /\ after.counter = before.counter + 1
                 /\ after.value = before.value - TheTx.transaction.inputs[k].value
                 /\ TheTx.witnesses[k].sig =
                       Sign(a, WitnessAccountData(
                                   ret.self.static_params.block0_initial_hash, TheTxId,
                                   before.counter))
        /\ \A a \in DOMAIN ret.self.accounts :
              ledger.accounts[a].counter =
                  ret.self.accounts[a].counter + Cardinality(Naming(a))

\* a transaction with an account input was accepted while another account,
\* that it does not spend from, existed
C7_Witness ==
    /\ OneTx
    /\ IsOk(ret)
    /\ AccountInputsOfTheTx # {}
    /\ \E a \in DOMAIN ret.self.accounts :
          /\ Naming(a) = {}
          /\ ledger.accounts[a].counter = ret.self.accounts[a].counter
    /\ \E a \in DOMAIN ret.self.accounts :
          /\ Naming(a) # {}
          /\ ret.self.accounts[a].counter > 0
          /\ ledger.accounts[a].counter = ret.self.accounts[a].counter + 1

\* the transaction has two inputs, both from the same account
TwoInputsOfOneAccount ==
    /\ OneTx
    /\ Len(TheTx.transaction.inputs) = 2
    /\ Len(TheTx.witnesses) = 2
    /\ AccountInputsOfTheTx = {1, 2}
    /\ TheTx.transaction.inputs[1].account = TheTx.transaction.inputs[2].account
    /\ TheTx.transaction.inputs[1].account \in DOMAIN ret.self.accounts

SignedOver(k, counter) ==
    TheTx.witnesses[k].sig =
        Sign(TheTx.transaction.inputs[k].account,
             WitnessAccountData(ret.self.static_params.block0_initial_hash, TheTxId,
                                counter))

\* C8: a transaction with two inputs from the same account A, whose counter is
\* c, is accepted only with its first witness signed over c and its second
\* over c + 1, and A's counter is then c + 2; with both witnesses signed over
\* c it is rejected.
C8_TwoInputsInOrder ==
    TwoInputsOfOneAccount =>
        LET A == TheTx.transaction.inputs[1].account
            c == ret.self.accounts[A].counter
        IN /\ IsOk(ret) => /\ SignedOver(1, c)
                           /\ SignedOver(2, c + 1)
                           /\ ledger.accounts[A].counter = c + 2
           /\ (SignedOver(1, c) /\ SignedOver(2, c)) =>
                 /\ ~IsOk(ret)
                 /\ ledger.accounts[A].counter = c

\* accepted, on an account whose counter was not 0
C8_Witness ==
    /\ TwoInputsOfOneAccount
    /\ IsOk(ret)
    /\ ret.self.accounts[TheTx.transaction.inputs[1].account].counter = 1
    /\ ledger.accounts[TheTx.transaction.inputs[1].account].counter = 3

\* date d is the date e or an earlier one
NotLater(d, e) == d[1] < e[1] \/ (d[1] = e[1] /\ d[2] <= e[2])

\* C9: apply_block succeeds only if the header's chain length is the
\* ledger's plus one and fails with WrongChainLength (actual: the header's,
\* expected: the ledger's plus one) otherwise, whatever the date; on success
\* the chain length is the old one plus one, so that after n blocks from the
\* genesis, of chain length 0, it is n.
C9_ChainLength ==
    /\ ret.op = "apply_block" =>
          LET expected == ret.self.chain_length + 1
          IN /\ IsOk(ret) => /\ ret.metadata.chain_length = expected
                             /\ ledger.chain_length = expected
             /\ ret.metadata.chain_length # expected =>
                   ret.err = [kind |-> "WrongChainLength",
                              actual |-> ret.metadata.chain_length,
                              expected |-> expected]
    /\ Genesis.chain_length = 0
    /\ ledger.chain_length = hist.blocks

\* after two blocks, a block of a wrong chain length and of a date not later
\* than the ledger's is refused for its chain length
C9_Witness ==
    /\ ret.op = "apply_block"
    /\ hist.blocks = 2
    /\ ret.self.chain_length = 2
    /\ ret.metadata.chain_length # 3
    /\ NotLater(ret.metadata.block_date, ret.self.date)
    /\ ret.err.kind = "WrongChainLength"

\* C10 as it is stated: every block whose date is not later than the ledger's
\* is rejected with NonMonotonicDate, and a block that succeeds sets the date
\* to the header's, so that the date strictly increases.
C10_Original ==
    ret.op = "apply_block" =>
        /\ NotLater(ret.metadata.block_date, ret.self.date) =>
              ret.err.kind = "NonMonotonicDate"
        /\ IsOk(ret) => /\ ledger.date = ret.metadata.block_date
                        /\ ~NotLater(ledger.date, ret.self.date)

\* C10: every block of the expected chain length whose date is not later than
\* the ledger's (an equal date, date (0,0) after the genesis) is rejected with
\* NonMonotonicDate, a block of another chain length being rejected with
\* WrongChainLength; a block that succeeds sets the date to the header's, so
\* that the date strictly increases.
C10_DateMonotonic ==
    ret.op = "apply_block" =>
        /\ NotLater(ret.metadata.block_date, ret.self.date) =>
              /\ ~IsOk(ret)
              /\ ledger.date = ret.self.date
              /\ ret.metadata.chain_length = ret.self.chain_length + 1 =>
                    ret.err = [kind |-> "NonMonotonicDate",
                               block_date |-> ret.metadata.block_date,
                               chain_date |-> ret.self.date]
        /\ IsOk(ret) => /\ ledger.date = ret.metadata.block_date
                        /\ ~NotLater(ledger.date, ret.self.date)

\* a block of the expected chain length and of the ledger's date is refused,
\* after a block was applied
C10_Witness ==
    /\ ret.op = "apply_block"
    /\ ret.self.chain_length >= 1
    /\ ret.metadata.chain_length = ret.self.chain_length + 1
    /\ ret.metadata.block_date = ret.self.date
    /\ ret.err.kind = "NonMonotonicDate"
    /\ ledger.date = ret.self.date

(***************************************************************************)
(* Ledger::new on other first blocks than Block0, and blocks of one        *)
(* fragment on the ledgers it returns: outputs of value zero or of another *)
(* discrimination, witnesses of another kind than their input, utxo inputs *)
(* of another value than the stored output, transactions at the limits,    *)
(* and certificates.                                                       *)
(***************************************************************************)
Certificate(content, signer, by) ==
    [content |-> content, signer |-> signer, signature |-> Sign(by, content)]

CertTx(inputs, outputs, certificate) ==
    [inputs |-> inputs, outputs |-> outputs, extra |-> certificate]

CertMsg(tx, witnesses) ==
    [tag |-> "Certificate", tx |-> [transaction |-> tx, witnesses |-> witnesses]]

Pool1 ==
    [serial |-> 1, owners |-> <<K1>>, kes_public_key |-> "kes1", vrf_public_key |-> "vrf1"]

StakePoolRegistration(info) == [kind |-> "StakePoolRegistration", info |-> info]

StakePoolRetirement(info) ==
    [kind |-> "StakePoolRetirement", pool_id |-> StakePoolInfo_to_id(info)]

StakeDelegation(stake_key_id, info) ==
    [kind |-> "StakeDelegation", stake_key_id |-> stake_key_id,
     pool_id |-> StakePoolInfo_to_id(info)]

\* n times the same element
Repeat(x, n) == [i \in 1..n |-> x]

\* a first block whose Initial fragment leaves out the required parameters
\* of the tags in S, in the order of InitialParams or in the reverse order
Block0Without(S, reversed) ==
    LET params == SelectNot(InitialParams, S)
    IN <<[tag |-> "Initial",
          params |-> IF reversed THEN [i \in 1..Len(params) |-> params[Len(params) + 1 - i]]
                     ELSE params]>>

\* a first block whose Initial fragment gives the required parameters of the
\* tags in T a second time, with another value, after those of InitialParams
Block0Twice(T) ==
    LET second == <<Param("Block0Date", 2000), Param("Discrimination", Test),
                    Param("SlotDuration", 20), Param("SlotsPerEpoch", 200),
                    Param("KESUpdateSpeed", 7200)>>
    IN <<[tag |-> "Initial", params |-> InitialParams \o SelectNot(second, Block0Tags \ T)]>>

\* the other first blocks offered to Ledger::new
Block0Choices ==
    LET InitialMsg(params) == [tag |-> "Initial", params |-> params]
        OldDeclMsg(addrs) == [tag |-> "OldUtxoDeclaration", decl |-> [addrs |-> addrs]]
        init == InitialMsg(InitialParams)
        test_params == [i \in 1..Len(InitialParams) |->
                           IF InitialParams[i].tag = "Discrimination"
                           THEN Param("Discrimination", Test) ELSE InitialParams[i]]
        reg(by) == CertMsg(CertTx(<< >>, << >>,
                               Certificate(StakePoolRegistration(Pool1), K1, by)), << >>)
        kinds(d) == {Single(d, K2), Group(d, K2, K1), Account(d, K2), Multisig(d, M1)}
    IN \* the usual block, none, and a first fragment that is not Initial
       {Block0, << >>, <<TxMsg(GT1, << >>), init>>, <<OldDeclMsg(OD1.addrs), init>>,
        <<PFee, init>>, <<Vote(PFee, K1), init>>, <<reg(K1), init>>}
       \* legacy outputs of value zero
       \cup {<<init, OldDeclMsg(<<<<OldAddressOf(X1), 0>>>>)>>,
             <<init, TxMsg(GT1, << >>),
               OldDeclMsg(<<<<OldAddressOf(X1), 2>>, <<OldAddressOf(X2), 0>>>>)>>}
       \* outputs of value zero
       \cup {<<init, TxMsg(Tx(<< >>, <<Out(Account(Production, K1), 4), Out(a, 0)>>), << >>)>> :
                a \in kinds(Production)}
       \* outputs of the other discrimination
       \cup {<<init, TxMsg(Tx(<< >>, <<Out(Account(Production, K1), 4), Out(a, 2)>>), << >>)>> :
                a \in kinds(Test)}
       \cup {<<init, TxMsg(Tx(<< >>, <<Out(Account(Production, K1), 4),
                                         Out(Single(Test, K2), 0)>>), << >>)>>}
       \* a ledger of the other discrimination
       \cup {<<InitialMsg(test_params),
               TxMsg(Tx(<< >>, <<Out(Account(Test, K1), 4), Out(Single(Test, K2), 2)>>), << >>)>>}
       \* transactions with an input, a witness, or more outputs than the limit
       \cup {<<init, TxMsg(T1, << >>)>>, <<init, TxMsg(GT1, <<WUtxo(K1, GT1)>>)>>,
             <<init, TxMsg(Tx(<< >>, Repeat(Out(Single(Production, K2), 1),
                                            MAX_TRANSACTION_OUTPUTS_COUNT + 1)), << >>)>>}
       \* certificates, signed by the key they name or by another
       \cup {<<init, TxMsg(GT1, << >>), reg(by)>> : by \in {K1, K2}}
       \cup {<<init, TxMsg(GT1, << >>), reg(K1),
               CertMsg(CertTx(<< >>, << >>,
                           Certificate(StakeDelegation(K1, Pool1), K1, by)), << >>)>> :
                by \in {K1, K2}}
       \cup {<<init, TxMsg(GT1, << >>),
               CertMsg(CertTx(<< >>, <<Out(Account(Production, K1), 1)>>,
                              Certificate(StakePoolRegistration(Pool1), K1, K1)), << >>)>>}
       \* fragments no first block admits after the Initial fragment: another
       \* Initial, alone or after a refused transaction, a proposal, a vote, a
       \* transaction with an input and a witness, and certificates with
       \* inputs, witnesses and outputs in every combination
       \cup {<<init, init>>, <<init, TxMsg(GT1, << >>), init>>,
             <<init, TxMsg(Tx(<< >>, <<Out(Account(Production, K1), 0)>>), << >>), init>>,
             <<init, PFee>>, <<init, TxMsg(GT1, << >>), Vote(PFee, K1)>>,
             <<init, TxMsg(T1, <<WAcct(K1, T1, 0)>>)>>}
       \cup {<<init, TxMsg(GT1, << >>),
               CertMsg(CertTx(i, o, Certificate(StakePoolRegistration(Pool1), K1, K1)), w)>> :
                i \in {<< >>, <<AcctIn(K1, 1)>>},
                o \in {<< >>, <<Out(Account(Production, K1), 1)>>},
                w \in {<< >>, <<WAcct(K1, T1, 0)>>}}
       \* two outputs of 200 to accounts and utxos, the same or not, and a
       \* utxo of 200 beside a legacy utxo of 200: each fits, the sum may not
       \cup {<<init, TxMsg(Tx(<< >>, <<Out(a, 200), Out(b, v)>>), << >>)>> :
                a \in {Account(Production, K1), Single(Production, K2)},
                b \in {Account(Production, K1), Account(Production, K2), Single(Production, K1)},
                v \in {100, 200}}
       \cup {<<init, TxMsg(Tx(<< >>, <<Out(Single(Production, K2), 200)>>), << >>),
               OldDeclMsg(<<<<OldAddressOf(X1), v>>>>)>> : v \in {100, 200}}
       \cup {<<init, TxMsg(Tx(<< >>, <<Out(Single(Production, K2), 200),
                                         Out(Single(Production, K1), 200)>>), << >>), init>>}
       \* outputs to a Group address, before and after the account it names
       \cup {<<init, TxMsg(Tx(<< >>, <<Out(Group(Production, K2, K1), 2),
                                         Out(Account(Production, K1), 4)>>), << >>)>>,
             <<init, TxMsg(GT1, << >>),
               TxMsg(Tx(<< >>, <<Out(Group(Production, K2, K1), 2)>>), << >>)>>}
       \* an output to a multisig account
       \cup {<<init, TxMsg(Tx(<< >>, <<Out(Account(Production, K1), 4),
                                         Out(Multisig(Production, M1), 2)>>), << >>)>>}
       \* a utxo output behind 256 outputs to an account
       \cup {<<init, TxMsg(Tx(<< >>, Repeat(Out(Account(Production, K1), 1), 256)
                                       \o <<Out(Single(Production, K2), 1)>>), << >>)>>}
       \* a declaration of 255 legacy addresses
       \cup {<<init, OldDeclMsg(Repeat(<<OldAddressOf(X1), 1>>, 255))>>}
\* the fragments offered, one to a block, to the ledgers Ledger::new returned
NewFragments ==
    LET P == Production
        kinds(d) == {Single(d, K2), Group(d, K2, K1), Account(d, K2), Multisig(d, M1)}
        acct(tx, key, sc) == TxMsg(tx, <<WAcct(key, tx, sc)>>)
        G1 == Tx(<<AcctIn(K1, 2)>>, <<Out(Single(P, K1), 1), Out(Group(P, K2, K1), 1)>>)
        Z(a) == Tx(<<AcctIn(K1, 2)>>, <<Out(Account(P, K2), 2), Out(a, 0)>>)
        ZU == Tx(<<UtxoIn(GT1, 1, 2)>>, <<Out(Single(P, K1), 2), Out(Single(P, K2), 0)>>)
        ZF == Tx(<<AcctIn(K1, 2)>>, <<Out(Single(P, K2), 0), Out(Account(P, K2), 2)>>)
        ZN == Tx(<<AcctIn(K1, 2)>>, <<Out(Account(P, K2), 1), Out(Single(P, K2), 0)>>)
        D(a) == Tx(<<AcctIn(K1, 2)>>, <<Out(Account(P, K2), 1), Out(a, 1)>>)
        N1 == Tx(<<UtxoIn(T1, 0, 2)>>, <<Out(Account(P, K2), 2)>>)
        N3 == Tx(<<UtxoIn(GT1, 1, 2), AcctIn(K2, 1)>>, <<Out(Account(P, K1), 3)>>)
        V1 == Tx(<<UtxoIn(GT1, 1, 1)>>, <<Out(Account(P, K2), 1)>>)
        V2 == Tx(<<UtxoIn(OD1, 0, 1)>>, <<Out(Account(P, K2), 1)>>)
        V3 == Tx(<<AcctIn(K1, 1), UtxoIn(GT1, 1, 1)>>, <<Out(Account(P, K2), 2)>>)
        many_in == Repeat(AcctIn(K1, 1), MAX_TRANSACTION_INPUTS_COUNT + 1)
        many_out == Repeat(Out(Single(P, K2), 1), MAX_TRANSACTION_OUTPUTS_COUNT + 1)
        many_wit == Repeat(WAcct(K1, T1, 0), MAX_TRANSACTION_WITNESSES_COUNT + 1)
        cert(content, by) ==
            CertTx(<<AcctIn(K1, 1)>>, <<Out(Account(P, K2), 1)>>, Certificate(content, K1, by))
        certu(content) ==
            CertTx(<<UtxoIn(GT1, 1, 2)>>, <<Out(Single(P, K1), 2)>>,
                   Certificate(content, K1, K1))
        certz == CertTx(<<AcctIn(K1, 1)>>,
                        <<Out(Account(P, K2), 1), Out(Single(P, K2), 0)>>,
                        Certificate(StakePoolRegistration(Pool1), K1, K1))
        G2 == Tx(<<AcctIn(K1, 2)>>, <<Out(Group(P, K1, K2), 1), Out(Account(P, K2), 1)>>)
        G3 == Tx(<<AcctIn(K1, 2)>>, <<Out(Group(P, K1, K2), 2)>>)
        OV == Tx(<<AcctIn(K1, 2)>>, <<Out(Account(P, K2), 200), Out(Single(P, K2), 200)>>)
        OVZ == Tx(<<AcctIn(K1, 2)>>,
                  <<Out(Account(P, K2), 200), Out(Single(P, K2), 200), Out(Single(P, K1), 0)>>)
        IV == Tx(<<AcctIn(K1, 200), AcctIn(K1, 200)>>,
                 <<Out(Account(P, K2), 200), Out(Account(P, K2), 200)>>)
        contents == {StakePoolRegistration(Pool1), StakePoolRetirement(Pool1),
                     StakeDelegation(K1, Pool1), StakeDelegation(K2, Pool1),
                     StakeDelegation(M1, Pool1)}
    IN \* transactions that are accepted
       {acct(g, K1, c) : g \in {G1, G2, G3}, c \in Counters}
       \* an output to a multisig account, behind a witness that verifies and
       \* behind one that does not
       \cup {acct(T9, K1, 0), acct(T9, K2, 0)}
       \cup {acct(T1, K1, c) : c \in Counters}
       \cup {TxMsg(T4, <<WUtxo(K2, T4)>>), TxMsg(T7, <<WOld(X1, T7)>>)}
       \* an output of value zero: of each kind, after a utxo output, first,
       \* behind a witness that does not verify, in a transaction not balanced
       \cup {acct(Z(a), K1, 0) : a \in kinds(P)}
       \cup {TxMsg(ZU, <<WUtxo(K2, ZU)>>), acct(ZF, K1, 0),
             acct(Z(Single(P, K2)), K2, 0), acct(ZN, K1, 0)}
       \* an output of the other discrimination, of each kind, and one of value zero
       \cup {acct(D(a), K1, 0) : a \in kinds(Test)}
       \cup {acct(Z(Single(Test, K2)), K1, 0)}
       \* a witness of another kind than its input, on outputs and accounts
       \* that exist and that do not, first and behind another pair
       \cup {TxMsg(T4, <<WAcct(K2, T4, 0)>>), TxMsg(T4, <<WMulti(K2, T4, 0)>>),
             TxMsg(N1, <<WAcct(K1, N1, 0)>>), TxMsg(N1, <<WUtxo(K1, N1)>>),
             TxMsg(T1, <<WUtxo(K1, T1)>>), TxMsg(T1, <<WOld(X1, T1)>>),
             TxMsg(T12, <<WUtxo(K2, T12)>>), TxMsg(T12, <<WOld(X1, T12)>>),
             acct(T12, K2, 0),
             TxMsg(T8, <<WUtxo(K2, T8), WUtxo(K2, T8)>>),
             TxMsg(T8, <<WUtxo(K1, T8), WUtxo(K2, T8)>>),
             TxMsg(T3, <<WAcct(K1, T3, 0), WUtxo(K1, T3)>>),
             TxMsg(T3, <<WAcct(K2, T3, 0), WUtxo(K1, T3)>>),
             TxMsg(N3, <<WUtxo(K2, N3), WUtxo(K2, N3)>>),
             TxMsg(N3, <<WAcct(K2, N3, 0), WUtxo(K2, N3)>>)}
       \* a utxo input of another value than the output it points to
       \cup {TxMsg(V1, <<WUtxo(K2, V1)>>), TxMsg(V1, <<WUtxo(K1, V1)>>),
             TxMsg(V1, <<WAcct(K2, V1, 0)>>),
             TxMsg(V2, <<WOld(X1, V2)>>), TxMsg(V2, <<WOld(X2, V2)>>),
             TxMsg(V3, <<WAcct(K1, V3, 0), WUtxo(K2, V3)>>),
             TxMsg(V3, <<WAcct(K2, V3, 0), WUtxo(K2, V3)>>)}
       \* one more input, output or witness than the limit, and unequal counts
       \cup {TxMsg(Tx(many_in, T1.outputs), Repeat(WAcct(K1, T1, 0), Len(many_in))),
             TxMsg(Tx(many_in, many_out), many_wit),
             TxMsg(Tx(T1.inputs, many_out), <<WAcct(K1, T1, 0)>>),
             TxMsg(Tx(T1.inputs, many_out), many_wit),
             TxMsg(T1, many_wit), TxMsg(T1, << >>),
             TxMsg(T1, <<WAcct(K1, T1, 0), WAcct(K1, T1, 1)>>)}
       \* not balanced: with a witness that verifies and with one that does
       \* not, alone and with an output of value zero; outputs whose total
       \* overflows; inputs whose total overflows
       \cup {acct(T10, K1, 0), acct(T10, K2, 0), acct(ZN, K2, 0),
             acct(OV, K1, 0), acct(OVZ, K1, 0), acct(OVZ, K2, 0),
             TxMsg(IV, <<WAcct(K1, IV, 0), WAcct(K1, IV, 1)>>)}
       \* certificates: each content, signed by the key the certificate names
       \cup {CertMsg(cert(x, K1), <<WAcct(K1, cert(x, K1), c)>>) :
                x \in contents, c \in Counters}
       \* ... on a utxo, behind a witness that does not verify, and without one
       \cup {CertMsg(certu(x), <<WUtxo(K2, certu(x))>>) :
                x \in {StakePoolRegistration(Pool1), StakePoolRetirement(Pool1),
                       StakeDelegation(K2, Pool1)}}
       \cup {CertMsg(cert(StakePoolRegistration(Pool1), K1),
                     <<WAcct(K2, cert(StakePoolRegistration(Pool1), K1), 0)>>)}
       \* ... with an output of value zero
       \cup {CertMsg(certz, <<WAcct(K1, certz, 0)>>)}
       \* ... and signed by another key
       \cup {CertMsg(cert(x, K2), <<WAcct(K1, cert(x, K2), 0)>>) : x \in contents}
       \cup {CertMsg(cert(StakePoolRegistration(Pool1), K2), << >>)}

\* Ledger::new: the caller holds no ledger before, and the returned one after Ok
New(contents) ==
    /\ ledger = NoLedger
    /\ ret = Idle
    /\ \E r \in {Ledger_new(Block0Hash, contents)} :
          /\ ledger' = r.ledger
          /\ ret' = [op |-> "new", contents |-> contents, self |-> NoLedger,
                     err |-> r.err]
          /\ hist' = IF IsOk(r) THEN [hist EXCEPT !.created = [p \in Pointers(r.ledger) |-> 1]]
                     ELSE hist

InitNew ==
    /\ ledger = NoLedger
    /\ ret = Idle
    /\ hist = [burned |-> 0, blocks |-> 0, created |-> EmptyMap,
               consumed |-> EmptyMap, accepted |-> EmptyMap]

NextNew ==
    \/ \E c \in Block0Choices : New(c)
    \/ \E S \in SUBSET Block0Tags, reversed \in BOOLEAN : New(Block0Without(S, reversed))
    \/ \E T \in SUBSET Block0Tags \ {{}} : New(Block0Twice(T))
    \/ /\ ledger # NoLedger
       /\ \E f \in NewFragments, d \in LaterDates(ledger.date) :
             ApplyBlock(get_ledger_parameters(ledger), <<f>>,
                        Header(ledger.chain_length + 1, d, None))
    \/ Continue

SpecNew == InitNew /\ [][NextNew]_vars

(***************************************************************************)
(* Claims on Ledger::new and on the checks of outputs, witnesses, limits   *)
(* and certificates.                                                       *)
(***************************************************************************)
\* what the call in progress was: Ledger::new, or apply_block on one fragment
NewReturned == ret.op = "new"

BlockReturned == ret.op = "apply_block"

\* the outputs of value zero a ledger holds, by their pointers
ZeroValued(l) ==
    {p \in Pointers(l) :
        (IF p[1] = "utxos" THEN l.utxos ELSE l.oldutxos)[p[2]][p[3]].value = 0}

\* C11: in every ledger returned by a successful Ledger::new or apply_block,
\* no output of value zero is present in utxos or in oldutxos, whichever
\* fragment created it (Transaction, Certificate, OldUtxoDeclaration).
C11_NoZeroValuedOutput == ledger # NoLedger => ZeroValued(ledger) = {}

\* the transaction of a fragment has an output of value zero, and the
\* position (1-based) of the first
HasZeroOutput(f) ==
    IsTx(f) /\ \E i \in 1..Len(f.tx.transaction.outputs) :
                  f.tx.transaction.outputs[i].value = 0

FirstZero(outputs) ==
    CHOOSE i \in 1..Len(outputs) :
        outputs[i].value = 0 /\ \A j \in 1..(i - 1) : outputs[j].value # 0

\* the counts of inputs, outputs and witnesses are within the limits
WithinLimits(tx) ==
    /\ Len(tx.transaction.inputs) <= MAX_TRANSACTION_INPUTS_COUNT
    /\ Len(tx.transaction.outputs) <= MAX_TRANSACTION_OUTPUTS_COUNT
    /\ Len(tx.witnesses) <= MAX_TRANSACTION_WITNESSES_COUNT
    /\ Len(tx.transaction.inputs) = Len(tx.witnesses)

\* apply_block was given one fragment, a transaction with or without a
\* certificate
OneTxBlock == BlockReturned /\ Len(ret.contents) = 1 /\ IsTx(ret.contents[1])

\* every check of apply_block on that transaction before its outputs passes
ChecksBeforeOutputs ==
    /\ ret.contents[1].tag = "Certificate" => certificate_verify(TheTx.transaction.extra)
    /\ fee_calculate(ret.fees, TheTx.transaction).ok
    /\ WithinLimits(TheTx)
    /\ IsOk(InputsDone)
    /\ SumOfInputs = SumOfOutputs + TheFee

\* the outputs before the n-th (1-based), applied after the inputs
OutputsBefore(n) ==
    apply_outputs_from(InputsDone.ledger, ret.self.static_params,
                       TheTx.transaction.outputs, 0, n - 1, << >>)

\* Ledger::new on the fragments before the k-th, and the outputs before the
\* n-th of the k-th fragment applied on the ledger it returns
NewBefore(k) == Ledger_new(Block0Hash, SubSeq(ret.contents, 1, k - 1))

NewOutputsBefore(k, n) ==
    apply_outputs_from(NewBefore(k).ledger, NewBefore(k).ledger.static_params,
                       ret.contents[k].tx.transaction.outputs, 0, n - 1, << >>)

ZeroOutputOf(outputs) == [kind |-> "ZeroOutput", output |-> outputs[FirstZero(outputs)]]

\* C12: a transaction with an output of value zero is never accepted, by
\* Ledger::new or by apply_block, whatever the rest of it; when every
\* earlier check passes the error is ZeroOutput with the first such output; and
\* the outputs before it leave nothing in the ledger the caller holds.
C12_ZeroOutputRejected ==
    /\ (OneTxBlock /\ HasZeroOutput(ret.contents[1])) =>
          /\ ~IsOk(ret)
          /\ ledger = ret.self
          /\ (ChecksBeforeOutputs
              /\ IsOk(OutputsBefore(FirstZero(TheTx.transaction.outputs))))
                => ret.err = ZeroOutputOf(TheTx.transaction.outputs)
    /\ NewReturned =>
          \A k \in 1..Len(ret.contents) :
              HasZeroOutput(ret.contents[k]) =>
                  /\ ~IsOk(ret)
                  /\ ledger = NoLedger
                  /\ (/\ k > 1
                      /\ IsOk(NewBefore(k))
                      /\ ret.contents[k].tag = "Transaction"
                      /\ Len(ret.contents[k].tx.transaction.inputs) = 0
                      /\ Len(ret.contents[k].tx.witnesses) = 0
                      /\ IsOk(NewOutputsBefore(
                                  k, FirstZero(ret.contents[k].tx.transaction.outputs))))
                        => ret.err = ZeroOutputOf(ret.contents[k].tx.transaction.outputs)

\* apply_block refused a transaction for its second output, of value zero,
\* after the first output had been credited to an account of the working copy
C12_Witness ==
    /\ OneTxBlock
    /\ HasZeroOutput(ret.contents[1])
    /\ ChecksBeforeOutputs
    /\ FirstZero(TheTx.transaction.outputs) = 2
    /\ IsOk(OutputsBefore(2))
    /\ OutputsBefore(2).ledger.accounts # InputsDone.ledger.accounts
    /\ ret.err.kind = "ZeroOutput"
    /\ ledger = ret.self

\* the positions (1-based) of the outputs of another discrimination than d
OtherDiscrimination(outputs, d) ==
    {i \in 1..Len(outputs) : outputs[i].address.discrimination # d}

Least(S) == CHOOSE i \in S : \A j \in S : i <= j

\* every address stored in the utxos of a ledger has its discrimination
OneDiscrimination(l) ==
    \A t \in DOMAIN l.utxos : \A i \in DOMAIN l.utxos[t] :
        l.utxos[t][i].address.discrimination = l.static_params.discrimination

\* the outputs of another discrimination than the ledger's, in the
\* transaction given to apply_block and in the k-th fragment given to
\* Ledger::new
Others == OtherDiscrimination(TheTx.transaction.outputs, ret.self.static_params.discrimination)

NewOthers(k) ==
    IF IsTx(ret.contents[k])
    THEN OtherDiscrimination(ret.contents[k].tx.transaction.outputs,
                             NewBefore(k).ledger.static_params.discrimination)
    ELSE {}

\* C13 as stated: every address stored in utxos has the discrimination of
\* the static parameters, and a transaction with an output of another
\* discrimination is rejected with InvalidDiscrimination and has no effect.
C13_Original ==
    /\ ledger # NoLedger => OneDiscrimination(ledger)
    /\ (OneTxBlock /\ Others # {}) =>
          ret.err = E("InvalidDiscrimination") /\ ledger = ret.self
    /\ NewReturned =>
          \A k \in 2..Len(ret.contents) :
              (IsOk(NewBefore(k)) /\ NewOthers(k) # {}) =>
                  ret.err = E("InvalidDiscrimination") /\ ledger = NoLedger

\* C13, amended: every address stored in utxos has the discrimination of the
\* static parameters; a transaction with an output of another discrimination
\* is rejected and has no effect, whatever the kind of the address, and the
\* error is InvalidDiscrimination when every earlier check passes: the checks
\* before the outputs, the outputs before it, and its own value not zero.
C13_Discrimination ==
    /\ ledger # NoLedger => OneDiscrimination(ledger)
    /\ (OneTxBlock /\ Others # {}) =>
          /\ ~IsOk(ret)
          /\ ledger = ret.self
          /\ (/\ ChecksBeforeOutputs
              /\ IsOk(OutputsBefore(Least(Others)))
              /\ TheTx.transaction.outputs[Least(Others)].value # 0)
                => ret.err = E("InvalidDiscrimination")
    /\ NewReturned =>
          \A k \in 2..Len(ret.contents) :
              (IsOk(NewBefore(k)) /\ NewOthers(k) # {}) =>
                  /\ ~IsOk(ret)
                  /\ ledger = NoLedger
                  /\ (/\ ret.contents[k].tag = "Transaction"
                      /\ Len(ret.contents[k].tx.transaction.inputs) = 0
                      /\ Len(ret.contents[k].tx.witnesses) = 0
                      /\ IsOk(NewOutputsBefore(k, Least(NewOthers(k))))
                      /\ ret.contents[k].tx.transaction.outputs[Least(NewOthers(k))].value # 0)
                        => ret.err = E("InvalidDiscrimination")

\* apply_block refused a transaction for its second output, to a multisig
\* address of the other discrimination, after the first output had been
\* credited to an account of the working copy
C13_Witness ==
    /\ OneTxBlock
    /\ Others = {2}
    /\ TheTx.transaction.outputs[2].address.kind = "Multisig"
    /\ ChecksBeforeOutputs
    /\ OutputsBefore(2).ledger.accounts # InputsDone.ledger.accounts
    /\ ret.err = E("InvalidDiscrimination")
    /\ ledger = ret.self
    /\ ledger.utxos # EmptyMap

\* the positions of the pairs of an input and a witness of another kind
Mismatched ==
    {k \in 1..Len(TheTx.transaction.inputs) :
        /\ k <= Len(TheTx.witnesses)
        /\ \/ /\ TheTx.transaction.inputs[k].kind = "Utxo"
              /\ TheTx.witnesses[k].kind \in {"Account", "Multisig"}
           \/ /\ TheTx.transaction.inputs[k].kind = "Account"
              /\ TheTx.witnesses[k].kind \in {"Utxo", "OldUtxo"}}

ExpectingError(k) ==
    IF TheTx.transaction.inputs[k].kind = "Utxo" THEN E("ExpectingUtxoWitness")
    ELSE E("ExpectingAccountWitness")

\* what the k-th input names is in the ledger apply_block was called on
Referenced(k) ==
    LET input == TheTx.transaction.inputs[k]
    IN IF input.kind = "Utxo"
       THEN \E s \in {"utxos", "oldutxos"} :
               <<s, input.utxo.transaction_id, input.utxo.output_index>>
                   \in Pointers(ret.self)
       ELSE input.account \in DOMAIN ret.self.accounts \cup DOMAIN ret.self.multisig

\* every check of apply_block on the transaction before its inputs passes
ChecksBeforeInputs ==
    /\ ret.contents[1].tag = "Certificate" => certificate_verify(TheTx.transaction.extra)
    /\ fee_calculate(ret.fees, TheTx.transaction).ok
    /\ WithinLimits(TheTx)

\* C14 as stated: a transaction with a utxo input paired with an Account or
\* Multisig witness fails with ExpectingUtxoWitness, one with an account input
\* paired with a Utxo or OldUtxo witness fails with ExpectingAccountWitness,
\* and nothing is consumed.
C14_Original ==
    OneTxBlock =>
        \A k \in Mismatched : ret.err = ExpectingError(k) /\ ledger = ret.self

\* C14, amended: a transaction with such a pair fails and nothing is
\* consumed; when the checks before the inputs pass and the pairs before the
\* first such pair verify, the error is ExpectingUtxoWitness for a utxo input
\* and ExpectingAccountWitness for an account input, whether or not the utxo
\* or the account exists.
C14_WitnessKind ==
    (OneTxBlock /\ Mismatched # {}) =>
        /\ ~IsOk(ret)
        /\ ledger = ret.self
        /\ (ChecksBeforeInputs /\ IsOk(InputsBefore(Least(Mismatched))))
              => ret.err = ExpectingError(Least(Mismatched))

\* the second input, of an account that does not exist, came with a Utxo
\* witness, after the first input had been taken from the utxos of the
\* working copy
C14_Witness ==
    /\ OneTxBlock
    /\ Mismatched = {2}
    /\ ~Referenced(2)
    /\ IsOk(InputsBefore(2))
    /\ InputsBefore(2).ledger.utxos # ret.self.utxos
    /\ ret.err = E("ExpectingAccountWitness")
    /\ ledger = ret.self

\* the output a utxo input points to in a ledger, by its witness kind
StoredOutput(l, input, witness) ==
    (IF witness.kind = "OldUtxo" THEN l.oldutxos ELSE l.utxos)
        [input.utxo.transaction_id][input.utxo.output_index]

\* the positions of the utxo inputs, with a Utxo or OldUtxo witness, that
\* point to an output of l of another value than the pointer's
ValueNotMatching(l) ==
    {k \in UtxoInputsOfTheTx :
        /\ k <= Len(TheTx.witnesses)
        /\ TheTx.witnesses[k].kind \in {"Utxo", "OldUtxo"}
        /\ PointerOf(TheTx.transaction.inputs[k], TheTx.witnesses[k]) \in Pointers(l)
        /\ StoredOutput(l, TheTx.transaction.inputs[k], TheTx.witnesses[k]).value
              # TheTx.transaction.inputs[k].utxo.value}

ValueNotMatchingError(k) ==
    [kind |-> "UtxoValueNotMatching",
     expected |-> TheTx.transaction.inputs[k].utxo.value,
     value |-> StoredOutput(ret.self, TheTx.transaction.inputs[k], TheTx.witnesses[k]).value]

\* C15 as stated: a transaction with a utxo input, new or legacy, whose
\* pointer's value is not the value of the stored output is rejected with
\* UtxoValueNotMatching{expected: pointer's value, value: stored value} and
\* the utxo remains unspent.
C15_Original ==
    OneTxBlock =>
        \A k \in ValueNotMatching(ret.self) :
            /\ ret.err = ValueNotMatchingError(k)
            /\ PointerOf(TheTx.transaction.inputs[k], TheTx.witnesses[k]) \in Pointers(ledger)

\* C15, amended: a transaction with such an input is rejected and the utxo
\* remains unspent; when the checks before the inputs pass, every earlier
\* pair verifies and leaves the output in place, the error is
\* UtxoValueNotMatching{expected: pointer's value, value: stored value},
\* whatever the signature of the witness.
C15_UtxoValue ==
    (OneTxBlock /\ ValueNotMatching(ret.self) # {}) =>
        LET k == Least(ValueNotMatching(ret.self))
        IN /\ ~IsOk(ret)
           /\ ledger = ret.self
           /\ \A j \in ValueNotMatching(ret.self) :
                 PointerOf(TheTx.transaction.inputs[j], TheTx.witnesses[j])
                     \in Pointers(ledger)
           /\ (/\ ChecksBeforeInputs
               /\ IsOk(InputsBefore(k))
               /\ k \in ValueNotMatching(InputsBefore(k).ledger))
                 => ret.err = ValueNotMatchingError(k)

\* the second input pointed to a utxo of value 2 with the value 1, after the
\* first input had been taken from an account of the working copy; its
\* witness was signed by the owner of the utxo
C15_Witness ==
    /\ OneTxBlock
    /\ ValueNotMatching(ret.self) = {2}
    /\ IsOk(InputsBefore(2))
    /\ InputsBefore(2).ledger.accounts # ret.self.accounts
    /\ ret.err = [kind |-> "UtxoValueNotMatching", expected |-> 1, value |-> 2]
    /\ ledger = ret.self

\* the error of the first limit a transaction is over
LimitError(tx) ==
    IF Len(tx.transaction.inputs) > MAX_TRANSACTION_INPUTS_COUNT
    THEN [kind |-> "TransactionHasTooManyInputs",
          expected |-> MAX_TRANSACTION_INPUTS_COUNT, actual |-> Len(tx.transaction.inputs)]
    ELSE IF Len(tx.transaction.outputs) > MAX_TRANSACTION_OUTPUTS_COUNT
    THEN [kind |-> "TransactionHasTooManyOutputs",
          expected |-> MAX_TRANSACTION_OUTPUTS_COUNT, actual |-> Len(tx.transaction.outputs)]
    ELSE IF Len(tx.witnesses) > MAX_TRANSACTION_WITNESSES_COUNT
    THEN [kind |-> "TransactionHasTooManyWitnesses",
          expected |-> MAX_TRANSACTION_WITNESSES_COUNT, actual |-> Len(tx.witnesses)]
    ELSE [kind |-> "NotEnoughSignatures",
          expected |-> Len(tx.transaction.inputs), actual |-> Len(tx.witnesses)]

\* the part of the limits that is on the blocks after the first: an accepted
\* transaction is within the limits, and the first limit it is over is
\* reported, in the order inputs, outputs, witnesses, NotEnoughSignatures,
\* with nothing consumed
LimitsOfLaterBlocks ==
    /\ (OneTxBlock /\ IsOk(ret)) => WithinLimits(TheTx)
    /\ (/\ OneTxBlock
        /\ ~WithinLimits(TheTx)
        /\ ret.contents[1].tag = "Certificate" => certificate_verify(TheTx.transaction.extra)
        /\ fee_calculate(ret.fees, TheTx.transaction).ok)
          => ret.err = LimitError(TheTx) /\ ledger = ret.self

\* C16: every transaction accepted by Ledger::new or by apply_block has at
\* most 256 inputs, at most 254 outputs, at most 256 witnesses and as many
\* witnesses as inputs; apply_block reports the first violation, in the
\* order inputs, outputs, witnesses, NotEnoughSignatures, and consumes nothing.
C16_Limits ==
    /\ (NewReturned /\ IsOk(ret)) =>
          \A k \in 1..Len(ret.contents) :
              IsTx(ret.contents[k]) => WithinLimits(ret.contents[k].tx)
    /\ LimitsOfLaterBlocks

\* apply_block was given one fragment, a transaction with a certificate
OneCertBlock == BlockReturned /\ Len(ret.contents) = 1 /\ ret.contents[1].tag = "Certificate"

TheCertificate == TheTx.transaction.extra

\* the transaction part applied on the ledger apply_block was called on, and
\* the content of the certificate applied on what the transaction part left
TxPart == apply_transaction(ret.self, TheTx, [fees |-> ret.fees])

ContentPart == apply_certificate_content(TxPart.ledger, TheCertificate)

\* C17: for a transaction with a certificate in a block after the first, the
\* transaction part and the content of the certificate take effect both or
\* not at all: when the content is refused after the transaction part was
\* validated, the error is the content's and no debit, counter increment or
\* output of the transaction is in the ledger the caller holds; and when the
\* certificate's own signature does not verify, CertificateInvalidSignature
\* is returned whatever the transaction part.
C17_CertificateAllOrNothing ==
    OneCertBlock =>
        /\ ~certificate_verify(TheCertificate) =>
              ret.err = E("CertificateInvalidSignature")
        /\ (certificate_verify(TheCertificate) /\ IsOk(TxPart) /\ ~IsOk(ContentPart)) =>
              ret.err = ContentPart.err
        /\ ~IsOk(ret) =>
              /\ ledger = ret.self
              /\ SameHoldings(ledger, ret.self)
              /\ ledger.delegation = ret.self.delegation
        /\ IsOk(ret) =>
              /\ certificate_verify(TheCertificate)
              /\ IsOk(TxPart)
              /\ IsOk(ContentPart)
              /\ SameHoldings(ledger, ContentPart.ledger)
              /\ ledger.delegation = ContentPart.ledger.delegation

\* a registration of a pool already registered was refused after the
\* transaction part had debited the account and incremented its counter in
\* the working copy
C17_Witness ==
    /\ OneCertBlock
    /\ certificate_verify(TheCertificate)
    /\ IsOk(TxPart)
    /\ TxPart.ledger.accounts[K1].counter = ret.self.accounts[K1].counter + 1
    /\ TxPart.ledger.accounts[K1].value < ret.self.accounts[K1].value
    /\ ret.err = DelegationErr("StakePoolAlreadyExists")
    /\ ledger = ret.self

\* the positions of the certificates, among the fragments given, whose own
\* signature does not verify
NotVerified ==
    {k \in 1..Len(ret.contents) :
        /\ ret.contents[k].tag = "Certificate"
        /\ ~certificate_verify(ret.contents[k].tx.transaction.extra)}

\* the pools and the delegation targets of the accounts of a ledger
Delegations(l) ==
    [pools |-> l.delegation,
     targets |-> [a \in DOMAIN l.accounts |-> l.accounts[a].delegation]]

\* C18: every certificate whose content was applied, by Ledger::new or by
\* apply_block, had its own signature verified; a certificate whose signature
\* does not verify changes neither the delegation state nor the delegation
\* target of any account.
C18_CertificatesVerified ==
    /\ (NewReturned /\ IsOk(ret)) => NotVerified = {}
    /\ (NewReturned /\ NotVerified # {}) => ledger = NoLedger
    /\ (BlockReturned /\ IsOk(ret)) => NotVerified = {}
    /\ (BlockReturned /\ NotVerified # {}) => Delegations(ledger) = Delegations(ret.self)

\* the part of C18 on the blocks after the first
CertificatesOfLaterBlocks ==
    /\ (BlockReturned /\ IsOk(ret)) => NotVerified = {}
    /\ (BlockReturned /\ NotVerified # {}) =>
          ret.err = E("CertificateInvalidSignature")
          /\ Delegations(ledger) = Delegations(ret.self)

\* C19: Ledger::new requires the first fragment to be Initial: no fragment
\* at all fails with Block0 InitialMessageMissing, and a first fragment of
\* another kind fails with ExpectingInitialMessage, also when an Initial
\* fragment comes later; no ledger is returned.
C19_FirstFragmentInitial ==
    NewReturned =>
        /\ Len(ret.contents) = 0 =>
              ret.err = Block0Err("InitialMessageMissing") /\ ledger = NoLedger
        /\ (Len(ret.contents) > 0 /\ ret.contents[1].tag # "Initial") =>
              ret.err = E("ExpectingInitialMessage") /\ ledger = NoLedger

\* Ledger::new was given a transaction first and the Initial fragment second
C19_Witness ==
    /\ NewReturned
    /\ Len(ret.contents) = 2
    /\ ret.contents[1].tag = "Transaction"
    /\ ret.contents[2].tag = "Initial"
    /\ ret.err = E("ExpectingInitialMessage")
    /\ ledger = NoLedger

\* the required parameters in the order they are looked for, with the error
\* of each
RequiredParameters ==
    <<<<"Block0Date", "InitialMessageNoDate">>,
      <<"Discrimination", "InitialMessageNoDiscrimination">>,
      <<"SlotDuration", "InitialMessageNoSlotDuration">>,
      <<"SlotsPerEpoch", "InitialMessageNoSlotsPerEpoch">>,
      <<"KESUpdateSpeed", "InitialMessageNoKesUpdateSpeed">>>>

\* the positions in RequiredParameters of those the Initial fragment lacks
Absent ==
    {n \in 1..Len(RequiredParameters) :
        \A i \in 1..Len(ret.contents[1].params) :
            ret.contents[1].params[i].tag # RequiredParameters[n][1]}

\* Ledger::new was given an Initial fragment first
InitialFirst == NewReturned /\ Len(ret.contents) > 0 /\ ret.contents[1].tag = "Initial"

\* C20: Ledger::new fails with an error of its own for each of the five
\* required parameters the Initial fragment lacks (InitialMessageNoDate,
\* NoDiscrimination, NoSlotDuration, NoSlotsPerEpoch, NoKesUpdateSpeed); when
\* several are absent the error is that of the first in this order, whatever
\* the order of the parameters in the fragment.
C20_RequiredParameters ==
    /\ \A m, n \in 1..Len(RequiredParameters) :
          m # n => RequiredParameters[m][2] # RequiredParameters[n][2]
    /\ (InitialFirst /\ Absent # {}) =>
          /\ ret.err = Block0Err(RequiredParameters[Least(Absent)][2])
          /\ ledger = NoLedger
    /\ (InitialFirst /\ IsOk(ret)) => Absent = {}

\* the fragment gave its parameters in the reverse order and lacked the
\* discrimination and the slots per epoch
C20_Witness ==
    /\ InitialFirst
    /\ ret.contents[1].params[1].tag = "KESUpdateSpeed"
    /\ Absent = {2, 4}
    /\ ret.err = Block0Err("InitialMessageNoDiscrimination")
    /\ ledger = NoLedger

(***************************************************************************)
(* Claims on the parameters and fragments of the first block, on the       *)
(* adoption of fees, and on the sharing of snapshots.                      *)
(***************************************************************************)
\* the required parameters the Initial fragment gives more than once
Twice ==
    {tag \in Block0Tags :
        \E i, j \in 1..Len(ret.contents[1].params) :
            /\ i # j
            /\ ret.contents[1].params[i].tag = tag
            /\ ret.contents[1].params[j].tag = tag}

\* the error the specification names for a second occurrence of a parameter
DuplicateError ==
    [Block0Date |-> "InitialMessageDuplicateBlock0Date",
     Discrimination |-> "InitialMessageDuplicateDiscrimination",
     SlotDuration |-> "InitialMessageDuplicateSlotDuration",
     SlotsPerEpoch |-> "InitialMessageDuplicateSlotsPerEpoch",
     KESUpdateSpeed |-> "InitialMessageDuplicateKESUpdateSpeed"]

\* C21: when the Initial fragment given to Ledger::new holds one of
\* Block0Date, Discrimination, SlotDuration, SlotsPerEpoch or KESUpdateSpeed
\* more than once, Ledger::new fails with the InitialMessageDuplicate error of
\* such a parameter and returns no ledger.
C21_DuplicateRejected ==
    (InitialFirst /\ Twice # {}) =>
        /\ ledger = NoLedger
        /\ \E tag \in Twice : ret.err = Block0Err(DuplicateError[tag])

\* the fragments Ledger::new admits after the Initial fragment
Admitted(f) ==
    \/ f.tag = "OldUtxoDeclaration"
    \/ /\ f.tag = "Transaction"
       /\ Len(f.tx.transaction.inputs) = 0
       /\ Len(f.tx.witnesses) = 0
    \/ /\ f.tag = "Certificate"
       /\ Len(f.tx.transaction.inputs) = 0
       /\ Len(f.tx.witnesses) = 0
       /\ Len(f.tx.transaction.outputs) = 0

\* the error of a fragment that is not admitted: inputs are reported before
\* witnesses, and witnesses before the outputs of a certificate
Refusal(f) ==
    CASE f.tag = "Initial" -> "InitialMessageMany"
      [] f.tag = "UpdateProposal" -> "HasUpdateProposal"
      [] f.tag = "UpdateVote" -> "HasUpdateVote"
      [] f.tag \in {"Transaction", "Certificate"} ->
           IF Len(f.tx.transaction.inputs) # 0 THEN "TransactionHasInput"
           ELSE IF Len(f.tx.witnesses) # 0 THEN "TransactionHasWitnesses"
           ELSE "TransactionHasOutput"

\* C22: after the Initial fragment, Ledger::new returns a ledger only when
\* every later fragment is an OldUtxoDeclaration, a Transaction without inputs
\* and witnesses, or a Certificate without inputs, witnesses and outputs; the
\* first later fragment of another shape, when the fragments before it were
\* applied, makes it fail and return no ledger: with InitialMessageMany for an
\* Initial, HasUpdateProposal for an UpdateProposal, HasUpdateVote for an
\* UpdateVote, TransactionHasInput for a transaction or certificate with
\* inputs (also when it has witnesses), TransactionHasWitnesses for one with
\* witnesses and no inputs, TransactionHasOutput for a certificate with
\* outputs and neither.
C22_LaterFragments ==
    InitialFirst =>
        /\ IsOk(ret) => \A k \in 2..Len(ret.contents) : Admitted(ret.contents[k])
        /\ \A k \in 2..Len(ret.contents) :
              (IsOk(NewBefore(k)) /\ ~Admitted(ret.contents[k])) =>
                  /\ ret.err = Block0Err(Refusal(ret.contents[k]))
                  /\ ledger = NoLedger

\* Ledger::new was given, after the Initial fragment and a transaction it
\* applied, a certificate with an input, a witness and an output, and failed
\* for the input
C22_Witness ==
    /\ InitialFirst
    /\ Len(ret.contents) = 3
    /\ IsOk(NewBefore(3))
    /\ ret.contents[3].tag = "Certificate"
    /\ Len(ret.contents[3].tx.transaction.inputs) # 0
    /\ Len(ret.contents[3].tx.witnesses) # 0
    /\ Len(ret.contents[3].tx.transaction.outputs) # 0
    /\ ret.err = Block0Err("TransactionHasInput")
    /\ ledger = NoLedger

\* the value a fragment of the first block declares, by halves
DeclaredValue(f) ==
    CASE f.tag = "Transaction" ->
           SumIndexes(f.tx.transaction.outputs, 1, Len(f.tx.transaction.outputs))
      [] f.tag = "OldUtxoDeclaration" ->
           SumIndexes([i \in 1..Len(f.decl.addrs) |-> [value |-> f.decl.addrs[i][2]]],
                      1, Len(f.decl.addrs))
      [] OTHER -> 0

\* the value all the fragments given to Ledger::new declare
DeclaredTotal ==
    SumSeq([k \in 1..Len(ret.contents) |-> DeclaredValue(ret.contents[k])])

\* the result of the loop over the later fragments, before the total is
\* validated
Built == new_contents_from(NewBefore(2).ledger, ret.contents, 2)

\* C23 as stated: Ledger::new returns a ledger only if the total of the old
\* utxos, utxos, accounts and multisig accounts of the first block fits in a
\* Value, and whenever that total overflows it fails with
\* UtxoTotalValueTooBig.
C23_Original ==
    InitialFirst =>
        /\ IsOk(ret) => DeclaredTotal <= MaxValue
        /\ DeclaredTotal > MaxValue =>
              ret.err = Block0Err("UtxoTotalValueTooBig") /\ ledger = NoLedger

\* C23: Ledger::new returns a ledger only if the total of the old utxos,
\* utxos, accounts and multisig accounts of the first block fits in a Value,
\* and the ledger holds exactly that total; when the total overflows no
\* ledger is returned, and the error is UtxoTotalValueTooBig when every
\* fragment was applied (and only then).
C23_TotalValue ==
    InitialFirst =>
        /\ IsOk(ret) => DeclaredTotal <= MaxValue /\ TotalValue(ledger) = DeclaredTotal
        /\ DeclaredTotal > MaxValue => ~IsOk(ret) /\ ledger = NoLedger
        /\ IsOk(NewBefore(2)) =>
              (ret.err = Block0Err("UtxoTotalValueTooBig")
                  <=> IsOk(Built) /\ DeclaredTotal > MaxValue)

\* an account of 200 and a utxo of 200 were declared, each within MaxValue,
\* and Ledger::new failed for their total
C23_Witness ==
    /\ InitialFirst
    /\ Len(ret.contents) = 2
    /\ IsOk(Built)
    /\ account_total(Built.ledger.accounts) = 200
    /\ utxo_total(Built.ledger.utxos) = 200
    /\ ret.err = Block0Err("UtxoTotalValueTooBig")
    /\ ledger = NoLedger

\* apply_block returned a ledger in which process_proposals adopted a proposal
\* that changed the linear fee, the caller having passed the parameters of
\* the snapshot (get_ledger_parameters)
FeeAdopted ==
    /\ BlockReturned
    /\ IsOk(ret)
    /\ \E id \in DOMAIN ret.self.updates :
          /\ ret.self.updates[id].state = "Proposed"
          /\ ledger.updates[id].state = "Adopted"
    /\ ledger.settings.linear_fees # ret.self.settings.linear_fees
    /\ [fees |-> ret.fees] = get_ledger_parameters(ret.self)

\* C24: when process_proposals adopts, at the boundary of a block, a proposal
\* that changes the linear fee, every transaction of that block is validated
\* with the adopted fee: the inputs of each accepted transaction equal its
\* outputs plus the fee computed from the settings after the adoption.
C24_AdoptedFeeValidates ==
    FeeAdopted =>
        \A k \in 1..Len(ret.contents) :
            IsTx(ret.contents[k]) =>
                LET tx == ret.contents[k].tx.transaction
                IN SumSeq([i \in 1..Len(tx.inputs) |-> tx.inputs[i].value])
                   = SumSeq([i \in 1..Len(tx.outputs) |-> tx.outputs[i].value])
                     + fee_calculate(ledger.settings.linear_fees, tx).value

(***************************************************************************)
(* Two callers apply blocks to one shared snapshot.  ledger is the         *)
(* snapshot; ret holds the snapshot as it was when the calls were made     *)
(* and, for each call, its arguments, its position in apply_block, its     *)
(* working copy and its result.                                            *)
(***************************************************************************)
\* the blocks the callers apply, with the fee parameters they pass
ForkBlocks ==
    {<<p, c>> \in FeeChoices \X BlockContents :
        \/ p.fees = LinearFee(0, 0, 0)
           /\ c \in {<< >>, <<TxMsg(T1, <<WAcct(K1, T1, 0)>>)>>,
                     <<TxMsg(T1, <<WAcct(K1, T1, 0)>>), TxMsg(T1, <<WAcct(K1, T1, 0)>>)>>,
                     <<TxMsg(T4, <<WUtxo(K2, T4)>>), TxMsg(T12, <<WAcct(K2, T12, 0)>>)>>}
        \/ p.fees = LinearFee(1, 0, 0)
           /\ c \in {<<TxMsg(T2, <<WAcct(K1, T2, 0)>>)>>,
                     <<TxMsg(T2, <<WAcct(K1, T2, 0)>>), TxMsg(T5, <<WUtxo(K1, T5)>>)>>}}

\* the calls of apply_block a caller may make on the snapshot l: a block
\* that follows it, or one of its own chain length and date
ForkCalls(l) ==
    {[fees |-> b[1].fees, contents |-> b[2], metadata |-> m,
      pc |-> "start", k |-> 1, new_ledger |-> NoLedger, err |-> OkErr] :
        b \in ForkBlocks,
        m \in {Header(l.chain_length + 1, d, None) : d \in LaterDates(l.date)}
              \cup {HeaderOf(l)}}

\* two callers borrow the snapshot, each for one call
ForkStart(c1, c2) ==
    /\ ret = Idle
    /\ ret' = [op |-> "forks", self |-> ledger, calls |-> <<c1, c2>>,
               interleaved |-> FALSE]
    /\ UNCHANGED <<ledger, hist>>

\* the i-th caller takes the next step of its call
ForkStep(i) ==
    /\ ret # Idle
    /\ ret.calls[i].pc # "done"
    /\ \E r \in {call_step(ledger, ret.calls[i])} :
          /\ ret' = [ret EXCEPT !.calls[i] = r.call,
                                !.interleaved = @ \/ ret.calls[3 - i].pc = "loop"]
          /\ ledger' = self_after(ledger, r.work)
    /\ UNCHANGED hist

\* both calls have returned, and the chain goes on from the genesis snapshot
\* with the ledger the i-th call returned
ForkAdopt(i) ==
    /\ ret # Idle
    /\ \A j \in {1, 2} : ret.calls[j].pc = "done"
    /\ IsOk(ret.calls[i])
    /\ ledger = Genesis
    /\ ledger' = ret.calls[i].new_ledger
    /\ ret' = Idle
    /\ UNCHANGED hist

NextFork ==
    \/ \E c1, c2 \in ForkCalls(ledger) : ForkStart(c1, c2)
    \/ \E i \in {1, 2} : ForkStep(i)
    \/ \E i \in {1, 2} : ForkAdopt(i)
    \/ /\ ret # Idle
       /\ \A j \in {1, 2} : ret.calls[j].pc = "done"
       /\ Continue

SpecFork == Init /\ [][NextFork]_vars

\* the two calls on the shared snapshot
Forked == ret.op = "forks"

BothDone == Forked /\ \A i \in {1, 2} : ret.calls[i].pc = "done"

SameBlock ==
    /\ ret.calls[1].fees = ret.calls[2].fees
    /\ ret.calls[1].contents = ret.calls[2].contents
    /\ ret.calls[1].metadata = ret.calls[2].metadata

Alone(i) ==
    apply_block(ret.self, [fees |-> ret.calls[i].fees], ret.calls[i].contents,
                ret.calls[i].metadata)

\* C26: two blocks applied to the same shared snapshot by two callers, in
\* either order or interleaved, each give the result they give alone (the
\* same error, or the same ledger), and the snapshot is the same before,
\* during and after the two calls.
C26_ForksIndependent ==
    Forked =>
        /\ ledger = ret.self
        /\ \A i \in {1, 2} :
              ret.calls[i].pc = "done" =>
                  /\ ret.calls[i].err = Alone(i).err
                  /\ IsOk(Alone(i)) => ret.calls[i].new_ledger = Alone(i).ledger
                  /\ ~IsOk(Alone(i)) => ret.calls[i].new_ledger = NoLedger

\* two different blocks were applied to the snapshot in interleaved steps,
\* both calls returned a ledger, the two ledgers differ from each other and
\* from the snapshot
C26_Witness ==
    /\ BothDone
    /\ ~SameBlock
    /\ ret.interleaved
    /\ ret.calls[1].contents # ret.calls[2].contents
    /\ Len(ret.calls[1].contents) = 2
    /\ IsOk(ret.calls[1])
    /\ IsOk(ret.calls[2])
    /\ ret.calls[1].new_ledger # ret.calls[2].new_ledger
    /\ ret.calls[1].new_ledger # ledger
    /\ ret.calls[2].new_ledger # ledger
    /\ ledger = ret.self

\* C27: every rejection by Ledger::new and by apply_block is an Error value:
\* no sequence of fragments, an OldUtxoDeclaration of 255 or more addresses
\* and a Utxo witness on any stored utxo included, makes the call end in a
\* panic, a failed assertion or the unwrap of an absent value.
C27_NoPanic == ret # Idle => ret.err.kind # "Panic"

\* no call of apply_block ends in a panic
NoPanicInLaterBlocks == BlockReturned => ret.err.kind # "Panic"

(***************************************************************************)
(* The other operations of the public interface on the ledger the caller   *)
(* holds: apply_update, and settings() and delegation(), which lend the    *)
(* settings and the delegation state for writing.                          *)
(***************************************************************************)
\* apply_update takes the ledger by value; the caller holds what it returns
ApplyUpdate(update) ==
    /\ ret = Idle
    /\ \E r \in {apply_update(ledger, update)} :
          /\ ledger' = Commit(ledger, r)
          /\ ret' = [op |-> "apply_update", self |-> ledger, err |-> r.err]
    /\ UNCHANGED hist

\* settings(): the caller writes a linear fee through the reference
SettingsMut(fees) ==
    /\ ret = Idle
    /\ ledger' = [ledger EXCEPT !.settings.linear_fees = fees]
    /\ ret' = [op |-> "settings", self |-> ledger, err |-> OkErr]
    /\ UNCHANGED hist

\* delegation(): the caller writes through the reference the state with one
\* more pool, or with none
DelegationMut(info) ==
    /\ ret = Idle
    /\ \E r \in {register_stake_pool(ledger.delegation, info)} :
          ledger' = [ledger EXCEPT !.delegation = IF IsOk(r) THEN r.delegation
                                                  ELSE delegation_new]
    /\ ret' = [op |-> "delegation", self |-> ledger, err |-> OkErr]
    /\ UNCHANGED hist

NextPublic ==
    \/ \E p \in FeeChoices, c \in GovContents, d \in LaterDates(ledger.date) :
          ApplyBlock(p, c, Header(ledger.chain_length + 1, d, None))
    \/ \E p \in FeeChoices, f \in GovFragments : ApplyFragment(p, f, HeaderOf(ledger))
    \/ \E u \in {PBad, PFee} : ApplyUpdate(u.proposal.proposal)
    \/ \E p \in FeeChoices : SettingsMut(p.fees)
    \/ DelegationMut(Pool1)
    \/ Continue

SpecPublic == Init /\ [][NextPublic]_vars

\* C28: after Ledger::new the ledger a caller holds changes only through
\* apply_block: no operation of the public interface changes the settings,
\* the delegation state, the balances or the utxos of the ledger in place or
\* returns a ledger in which they are changed, unless it is apply_block, with
\* the chain length advanced by one and a later date.
C28_OnlyApplyBlock ==
    (ret # Idle /\ ledger # ret.self) =>
        /\ ret.op = "apply_block"
        /\ ledger.chain_length = ret.self.chain_length + 1
        /\ ~DateLE(ledger.date, ret.self.date)

(***************************************************************************)
(* message::ConfigParams on the wire: a u16 count, then each parameter as  *)
(* a tag byte, a length byte and the bytes of its value.                   *)
(***************************************************************************)
MaxParams == 3

\* the tag byte of a parameter is its position here
ConfigTags == <<"Block0Date", "SlotsPerEpoch", "SlotDuration">>

\* the number of bytes of a parameter's value
ConfigWidth == [Block0Date |-> 8, SlotsPerEpoch |-> 4, SlotDuration |-> 1]

\* "len as u16"
AsU16(n) == n % 2^16

\* Codec::put_u16 and ReadBuf::get_u16: two bytes, the high one first
put_u16(v) == <<v \div 256, v % 256>>

get_u16(buf) == buf[1] * 256 + buf[2]

\* the byte of weight 256^e of a value below 2^31, and its weight
Digit(v, e) == IF e > 3 THEN 0 ELSE (v \div 256^e) % 256

Weight(b, e) == IF e > 3 THEN 0 ELSE b * 256^e

ConfigParam_serialize(p) ==
    LET w == ConfigWidth[p.tag]
        tag == CHOOSE t \in DOMAIN ConfigTags : ConfigTags[t] = p.tag
    IN <<tag, w>> \o [i \in 1..w |-> Digit(p.value, w - i)]

\* ConfigParam::read at the position pos of the buffer: the parameter and
\* the position after it
ConfigParam_read(buf, pos) ==
    IF pos + 1 > Len(buf) \/ buf[pos] \notin DOMAIN ConfigTags
    THEN [ok |-> FALSE, value |-> << >>, pos |-> pos]
    ELSE IF pos + 1 + buf[pos + 1] > Len(buf)
    THEN [ok |-> FALSE, value |-> << >>, pos |-> pos]
    ELSE [ok |-> TRUE,
          value |-> Param(ConfigTags[buf[pos]],
                          SumSeq([i \in 1..buf[pos + 1] |->
                                     Weight(buf[pos + 1 + i], buf[pos + 1] - i)])),
          pos |-> pos + 2 + buf[pos + 1]]

\* the loop of serialize over the parameters lo..hi, by halves
RECURSIVE serialize_from(_, _, _)
serialize_from(params, lo, hi) ==
    IF lo > hi THEN << >>
    ELSE IF lo = hi THEN ConfigParam_serialize(params[lo])
    ELSE serialize_from(params, lo, (lo + hi) \div 2)
         \o serialize_from(params, (lo + hi) \div 2 + 1, hi)

ConfigParams_serialize(params) ==
    put_u16(AsU16(Len(params))) \o serialize_from(params, 1, Len(params))

\* the loop of read: len parameters from the position pos on, by halves
RECURSIVE read_from(_, _, _)
read_from(buf, pos, len) ==
    IF len = 0 THEN [ok |-> TRUE, value |-> << >>, pos |-> pos]
    ELSE IF len = 1
    THEN Bind(ConfigParam_read(buf, pos), LAMBDA r : [r EXCEPT !.value = IF r.ok THEN <<@>> ELSE @])
    ELSE Bind(read_from(buf, pos, len \div 2), LAMBDA a :
            IF ~a.ok THEN a
            ELSE Bind(read_from(buf, a.pos, len - len \div 2), LAMBDA b :
                    IF ~b.ok THEN b ELSE [b EXCEPT !.value = a.value \o @]))

ConfigParams_read(buf) ==
    IF Len(buf) < 2 THEN [ok |-> FALSE, value |-> << >>, pos |-> 1]
    ELSE read_from(buf, 3, get_u16(buf))

\* the ConfigParams values serialized, each as a sequence of parameters and
\* the number of times it is repeated: every sequence of up to MaxParams
\* parameters, in any order and with duplicates, and one parameter about
\* 2^16 times
ConfigChoices ==
    {[base |-> s, times |-> 1] :
        s \in UNION {[1..n -> {Param("Block0Date", 1000), Param("SlotsPerEpoch", 100),
                               Param("SlotDuration", 10)}] : n \in 0..MaxParams}}
    \cup {[base |-> <<Param("SlotDuration", 10)>>, times |-> n] :
             n \in {2^16 - 1, 2^16, 2^16 + 1}}

\* the ConfigParams value in hand
ParamsOf(r) ==
    [i \in 1..(Len(r.base) * r.times) |-> r.base[((i - 1) % Len(r.base)) + 1]]

\* a ConfigParams value is built, serialized, and read back; of the buffer
\* the state keeps the count written and the length
ConfigNew(c) ==
    /\ ret = Idle
    /\ ret' = [op |-> "ConfigParams", base |-> c.base, times |-> c.times,
               buf |-> None, read |-> None]
    /\ UNCHANGED <<ledger, hist>>

ConfigSerialize ==
    /\ ret # Idle
    /\ ret.buf = None
    /\ \E buf \in {ConfigParams_serialize(ParamsOf(ret))} :
          ret' = [ret EXCEPT !.buf = Some([count |-> SubSeq(buf, 1, 2), len |-> Len(buf)])]
    /\ UNCHANGED <<ledger, hist>>

ConfigRead ==
    /\ ret # Idle
    /\ ret.buf # None
    /\ ret.read = None
    /\ ret' = [ret EXCEPT
                  !.read = Some(ConfigParams_read(ConfigParams_serialize(ParamsOf(ret))))]
    /\ UNCHANGED <<ledger, hist>>

NextConfig ==
    \/ \E c \in ConfigChoices : ConfigNew(c)
    \/ ConfigSerialize
    \/ ConfigRead
    \/ Continue

SpecConfig == InitNew /\ [][NextConfig]_vars

\* a ConfigParams value has been serialized and read back
ReadBack == ret # Idle /\ ret.buf # None /\ ret.read # None

\* C29: for every ConfigParams value, of any number of parameters in any
\* order and with duplicates, the u16 count written is the number of
\* parameters and reading the serialization gives an equal value: the same
\* parameters in the same order.
C29_RoundTrip ==
    /\ (ret # Idle /\ ret.buf # None) =>
          get_u16(ret.buf[1].count) = Len(ret.base) * ret.times
    /\ ReadBack => ret.read[1].ok /\ ret.read[1].value = ParamsOf(ret)

\* the round trip of the values of fewer than 2^16 parameters
RoundTripBelow ==
    (ReadBack /\ Len(ret.base) * ret.times < 2^16) =>
        /\ get_u16(ret.buf[1].count) = Len(ret.base) * ret.times
        /\ ret.read[1].ok
        /\ ret.read[1].value = ParamsOf(ret)

\* one transaction was applied whose only input points, with an OldUtxo
\* witness, to a stored legacy output of the value the input names
OldSpend ==
    /\ OneTx
    /\ Len(TheTx.transaction.inputs) = 1
    /\ Len(TheTx.witnesses) = 1
    /\ TheTx.transaction.inputs[1].kind = "Utxo"
    /\ TheTx.witnesses[1].kind = "OldUtxo"
    /\ LET u == TheTx.transaction.inputs[1].utxo
       IN /\ u.transaction_id \in DOMAIN ret.self.oldutxos
          /\ u.output_index \in DOMAIN ret.self.oldutxos[u.transaction_id]
          /\ ret.self.oldutxos[u.transaction_id][u.output_index].value = u.value

\* the legacy output the input points to
OldOutput ==
    ret.self.oldutxos[TheTx.transaction.inputs[1].utxo.transaction_id]
                     [TheTx.transaction.inputs[1].utxo.output_index]

\* the xpub of the witness derives the address of that output
Derives == OldOutput.address = OldAddressOf(TheTx.witnesses[1].xpub)

\* C30: an input with an OldUtxo witness is accepted only if the xpub of the
\* witness derives the legacy address of the old output it points to and the
\* signature verifies over the block 0 hash and the transaction id; a witness
\* whose xpub does not derive the address is rejected with
\* OldUtxoInvalidPublicKey, and one whose xpub derives it is not.
C30_OldUtxoWitness ==
    OldSpend =>
        /\ IsOk(ret) =>
              /\ Derives
              /\ Verify(TheTx.witnesses[1].sig, TheTx.witnesses[1].xpub,
                        WitnessUtxoData(ret.self.static_params.block0_initial_hash, TheTxId))
        /\ ~Derives => ret.err = E("OldUtxoInvalidPublicKey")
        /\ Derives => ret.err # E("OldUtxoInvalidPublicKey")

(***************************************************************************)
(* Claims on the order of the checks of a transaction and on what each     *)
(* kind of output does.                                                    *)
(***************************************************************************)
\* apply_block was given one Transaction fragment whose fee can be calculated
PlainTx ==
    /\ OneTxBlock
    /\ ret.contents[1].tag = "Transaction"
    /\ fee_calculate(ret.fees, TheTx.transaction).ok

\* the k-th pair of an input and a witness, verified alone on the ledger the
\* pairs before it left
PairResult(k) ==
    apply_inputs_from(InputsBefore(k).ledger, TheTxId, <<TheTx.transaction.inputs[k]>>,
                      <<TheTx.witnesses[k]>>, 1, NoLog)

\* the pairs that do not verify after every pair before them did
FailingPairs ==
    {k \in 1..Len(TheTx.transaction.inputs) : IsOk(InputsBefore(k)) /\ ~IsOk(PairResult(k))}

\* the outputs (1-based) that are refused after every output before them
\* was applied
FailingOutputs ==
    {n \in 1..Len(TheTx.transaction.outputs) :
        IsOk(OutputsBefore(n)) /\ ~IsOk(OutputsBefore(n + 1))}

OutputsDone == OutputsBefore(Len(TheTx.transaction.outputs) + 1)

\* the error of the first step that fails, in the order: arity, pairs of
\* input and witness, total of the inputs, total of the outputs and the fee,
\* balance, outputs, insertion of the new utxos
FirstError ==
    IF ~WithinLimits(TheTx) THEN LimitError(TheTx)
    ELSE IF FailingPairs # {} THEN PairResult(Least(FailingPairs)).err
    ELSE IF SumOfInputs > MaxValue THEN E("UtxoInputsTotal")
    ELSE IF SumOfOutputs + TheFee > MaxValue THEN E("UtxoOutputsTotal")
    ELSE IF SumOfInputs # SumOfOutputs + TheFee
    THEN [kind |-> "NotBalanced", inputs |-> SumOfInputs, outputs |-> SumOfOutputs + TheFee]
    ELSE IF FailingOutputs # {} THEN OutputsBefore(Least(FailingOutputs) + 1).err
    ELSE utxo_add(OutputsDone.ledger.utxos, TheTxId, OutputsDone.new_utxos).err

\* the totals are representable and differ
NotBalancedTx ==
    /\ SumOfInputs <= MaxValue
    /\ SumOfOutputs + TheFee <= MaxValue
    /\ SumOfInputs # SumOfOutputs + TheFee

\* C31: a transaction is checked in the order arity, each input with its
\* witness in declared order, balance (total of the inputs, then total of the
\* outputs, then equality), outputs in declared order, and the error returned
\* is that of the first step that fails: with a failing witness and unequal
\* totals the witness's error, with unequal totals and an output of value zero
\* NotBalanced, and with an overflowing total of the inputs UtxoInputsTotal
\* whatever the total of the outputs.
C31_StrictOrder ==
    PlainTx =>
        /\ ret.err = FirstError
        /\ (WithinLimits(TheTx) /\ FailingPairs # {})
              => ret.err.kind \notin {"NotBalanced", "UtxoInputsTotal", "UtxoOutputsTotal",
                                      "ZeroOutput"}
        /\ (WithinLimits(TheTx) /\ FailingPairs = {} /\ NotBalancedTx)
              => ret.err.kind = "NotBalanced"
        /\ (WithinLimits(TheTx) /\ FailingPairs = {} /\ SumOfInputs > MaxValue)
              => ret.err = E("UtxoInputsTotal")

\* a transaction with unequal totals, an output of value zero and a witness
\* signed by another key than the account's was refused for its witness
C31_Witness ==
    /\ PlainTx
    /\ WithinLimits(TheTx)
    /\ NotBalancedTx
    /\ HasZeroOutput(ret.contents[1])
    /\ FailingPairs = {1}
    /\ ret.err.kind = "AccountInvalidSignature"
    /\ ledger = ret.self

\* the other cases: unequal totals and an output of value zero behind inputs
\* that verify, and a total of the outputs that overflows
NotBalancedBeforeZeroOutput ==
    /\ PlainTx
    /\ WithinLimits(TheTx)
    /\ FailingPairs = {}
    /\ NotBalancedTx
    /\ HasZeroOutput(ret.contents[1])
    /\ ret.err.kind = "NotBalanced"

\* every input that verifies takes its value from the ledger, whose total is
\* representable: the inputs of a transaction never verify all when their
\* total overflows
InputsTotalRepresentable ==
    (PlainTx /\ WithinLimits(TheTx) /\ FailingPairs = {}) => SumOfInputs <= MaxValue

\* the positions (1-based) of the outputs of a kind in a list of outputs
OutputsOfKind(outputs, kind) ==
    {n \in 1..Len(outputs) : outputs[n].address.kind = kind}

\* an output passes the two checks made before the match on its kind
Passes(output, static_params) ==
    output.value # 0 /\ output.address.discrimination = static_params.discrimination

\* the accounts after a credit of v to id: added to the balance of an account
\* that exists, a new account of balance v and counter zero otherwise
Credited(accounts, id, v) ==
    [a \in DOMAIN accounts \cup {id} |->
        IF a # id THEN accounts[a]
        ELSE IF id \in DOMAIN accounts
        THEN [value |-> accounts[id].value + v, counter |-> accounts[id].counter,
              delegation |-> accounts[id].delegation]
        ELSE [value |-> v, counter |-> 0, delegation |-> NoDelegation]]

\* what an Account output does, from the state b of the loop over the outputs
\* before it to the state a after it
AccountOutputApplied(b, a, output) ==
    LET id == output.address.account
    IN IF id \in DOMAIN b.ledger.accounts
          /\ b.ledger.accounts[id].value + output.value > MaxValue
       THEN a.err.kind = "Account"
       ELSE /\ IsOk(a)
            /\ a.ledger.accounts = Credited(b.ledger.accounts, id, output.value)
            /\ a.new_utxos = b.new_utxos
            /\ [a.ledger EXCEPT !.accounts = b.ledger.accounts] = b.ledger

\* the indexes under which a ledger holds utxos of a transaction id
IndexesOf(l, txid) == IF txid \in DOMAIN l.utxos THEN DOMAIN l.utxos[txid] ELSE {}

\* the outputs of the k-th fragment of the first block
NewOutputs(k) == ret.contents[k].tx.transaction.outputs

\* C32: an output to an Account address adds exactly its value to the
\* balance of the account when it exists, leaving its counter and its
\* delegation as they were, and creates the account with that balance and
\* counter zero when it does not; no utxo is created for it; and when the
\* balance overflows the transaction fails and the caller's ledger is unchanged.
C32_AccountOutput ==
    /\ (OneTxBlock /\ ChecksBeforeOutputs) =>
          \A n \in OutputsOfKind(TheTx.transaction.outputs, "Account") :
              /\ (/\ IsOk(OutputsBefore(n))
                  /\ Passes(TheTx.transaction.outputs[n], ret.self.static_params))
                    => /\ AccountOutputApplied(OutputsBefore(n), OutputsBefore(n + 1),
                                               TheTx.transaction.outputs[n])
                       /\ ~IsOk(OutputsBefore(n + 1)) =>
                             ret.err = OutputsBefore(n + 1).err /\ ledger = ret.self
              /\ IsOk(ret) =>
                    \A i \in IndexesOf(ledger, TheTxId) :
                        ledger.utxos[TheTxId][i] # TheTx.transaction.outputs[n]
    /\ NewReturned =>
          \A k \in 2..Len(ret.contents) :
              (ret.contents[k].tag = "Transaction" /\ IsOk(NewBefore(k))
               /\ Len(ret.contents[k].tx.transaction.inputs) = 0
               /\ Len(ret.contents[k].tx.witnesses) = 0) =>
                  \A n \in OutputsOfKind(NewOutputs(k), "Account") :
                      /\ (/\ IsOk(NewOutputsBefore(k, n))
                          /\ Passes(NewOutputs(k)[n], NewBefore(k).ledger.static_params))
                            => /\ AccountOutputApplied(NewOutputsBefore(k, n),
                                                       NewOutputsBefore(k, n + 1),
                                                       NewOutputs(k)[n])
                               /\ ~IsOk(NewOutputsBefore(k, n + 1)) =>
                                     /\ ret.err = NewOutputsBefore(k, n + 1).err
                                     /\ ledger = NoLedger
                      /\ IsOk(ret) =>
                            \A i \in IndexesOf(ledger, Hash(ret.contents[k].tx.transaction)) :
                                ledger.utxos[Hash(ret.contents[k].tx.transaction)][i]
                                    # NewOutputs(k)[n]

\* apply_block accepted a transaction with an output to an account that had
\* spent before and had a delegation: the balance grew by the output's value
C32_Witness ==
    /\ OneTxBlock
    /\ IsOk(ret)
    /\ \E n \in OutputsOfKind(TheTx.transaction.outputs, "Account") :
          LET id == TheTx.transaction.outputs[n].address.account
          IN /\ id \in DOMAIN InputsDone.ledger.accounts
             /\ InputsDone.ledger.accounts[id].counter > 0
             /\ InputsDone.ledger.accounts[id].delegation # NoDelegation
             /\ ledger.accounts[id] =
                   [InputsDone.ledger.accounts[id] EXCEPT
                       !.value = @ + TheTx.transaction.outputs[n].value]

\* the other cases: an account created by an output of a later block, and a
\* balance that overflows in the first block
AccountCreatedByOutput ==
    /\ OneTxBlock
    /\ IsOk(ret)
    /\ \E n \in OutputsOfKind(TheTx.transaction.outputs, "Account") :
          LET id == TheTx.transaction.outputs[n].address.account
          IN /\ id \notin DOMAIN ret.self.accounts
             /\ ledger.accounts[id] = [value |-> TheTx.transaction.outputs[n].value,
                                       counter |-> 0, delegation |-> NoDelegation]

BalanceOverflowInFirstBlock ==
    /\ NewReturned
    /\ ret.err = AccountErr("ValueError")
    /\ ledger = NoLedger

\* what a Group output at position n (1-based) does, from the state b of the
\* loop over the outputs before it to the state a after it
GroupOutputApplied(b, a, output, n) ==
    LET id == output.address.account
    IN /\ IsOk(a)
       /\ a.ledger.accounts =
             IF id \in DOMAIN b.ledger.accounts THEN b.ledger.accounts
             ELSE Credited(b.ledger.accounts, id, 0)
       /\ a.new_utxos = Append(b.new_utxos, <<AsU8(n - 1), output>>)
       /\ [a.ledger EXCEPT !.accounts = b.ledger.accounts] = b.ledger

\* the value the Account outputs of a list give to an account
RECURSIVE AccountCredit(_, _)
AccountCredit(outputs, id) ==
    IF outputs = << >> THEN 0
    ELSE (IF Head(outputs).address.kind = "Account" /\ Head(outputs).address.account = id
          THEN Head(outputs).value ELSE 0) + AccountCredit(Tail(outputs), id)

BalanceIn(accounts, id) == IF id \in DOMAIN accounts THEN accounts[id].value ELSE 0

\* C33: an output to a Group address is inserted into the utxos at its
\* position and the account its account key names exists afterwards: created
\* with balance zero when absent, left with its balance, counter and delegation
\* when present; the value is in the utxo only, never also in the account.
C33_GroupOutput ==
    /\ (OneTxBlock /\ ChecksBeforeOutputs) =>
          \A n \in OutputsOfKind(TheTx.transaction.outputs, "Group") :
              /\ (/\ IsOk(OutputsBefore(n))
                  /\ Passes(TheTx.transaction.outputs[n], ret.self.static_params))
                    => GroupOutputApplied(OutputsBefore(n), OutputsBefore(n + 1),
                                          TheTx.transaction.outputs[n], n)
              /\ IsOk(ret) =>
                    LET id == TheTx.transaction.outputs[n].address.account
                    IN /\ ledger.utxos[TheTxId][n - 1] = TheTx.transaction.outputs[n]
                       /\ id \in DOMAIN ledger.accounts
                       /\ ledger.accounts[id].value =
                             BalanceIn(InputsDone.ledger.accounts, id)
                                 + AccountCredit(TheTx.transaction.outputs, id)
                       /\ id \in DOMAIN InputsDone.ledger.accounts =>
                             /\ ledger.accounts[id].counter
                                   = InputsDone.ledger.accounts[id].counter
                             /\ ledger.accounts[id].delegation
                                   = InputsDone.ledger.accounts[id].delegation
    /\ NewReturned =>
          \A k \in 2..Len(ret.contents) :
              (ret.contents[k].tag = "Transaction" /\ IsOk(NewBefore(k))
               /\ Len(ret.contents[k].tx.transaction.inputs) = 0
               /\ Len(ret.contents[k].tx.witnesses) = 0) =>
                  \A n \in OutputsOfKind(NewOutputs(k), "Group") :
                      (/\ IsOk(NewOutputsBefore(k, n))
                       /\ Passes(NewOutputs(k)[n], NewBefore(k).ledger.static_params))
                         => GroupOutputApplied(NewOutputsBefore(k, n),
                                               NewOutputsBefore(k, n + 1),
                                               NewOutputs(k)[n], n)

\* apply_block accepted a transaction with an output of value 2 to a Group
\* address whose account did not exist: the account is there with balance
\* zero and the utxo holds the value
C33_Witness ==
    /\ OneTxBlock
    /\ IsOk(ret)
    /\ \E n \in OutputsOfKind(TheTx.transaction.outputs, "Group") :
          LET id == TheTx.transaction.outputs[n].address.account
          IN /\ id \notin DOMAIN ret.self.accounts
             /\ ledger.accounts[id] = [value |-> 0, counter |-> 0,
                                       delegation |-> NoDelegation]
             /\ ledger.utxos[TheTxId][n - 1].value = 2

\* the other cases: a Group output naming an account that exists, with a
\* counter and a balance that stay, in a later block and in the first block
GroupOutputToExistingAccount ==
    /\ OneTxBlock
    /\ IsOk(ret)
    /\ \E n \in OutputsOfKind(TheTx.transaction.outputs, "Group") :
          LET id == TheTx.transaction.outputs[n].address.account
          IN /\ id \in DOMAIN InputsDone.ledger.accounts
             /\ InputsDone.ledger.accounts[id].value > 0
             /\ ledger.accounts[id] = InputsDone.ledger.accounts[id]

GroupOutputInFirstBlock ==
    /\ NewReturned
    /\ IsOk(ret)
    /\ \E k \in 2..Len(ret.contents) :
          /\ ret.contents[k].tag = "Transaction"
          /\ OutputsOfKind(NewOutputs(k), "Group") # {}

\* the positions of the outputs to a multisig account a ledger does not hold
ToAbsentMultisig(outputs, l) ==
    {n \in OutputsOfKind(outputs, "Multisig") :
        outputs[n].address.account \notin DOMAIN l.multisig}

\* C34 as stated: a transaction with an output to a Multisig address whose
\* account does not exist is rejected with a Multisig ledger error, and no
\* multisig account is created by an output, in the first block or later.
C34_Original ==
    /\ ledger # NoLedger => ledger.multisig = multisig_new
    /\ (OneTxBlock /\ ToAbsentMultisig(TheTx.transaction.outputs, ret.self) # {}) =>
          ret.err.kind = "Multisig" /\ ledger = ret.self
    /\ NewReturned =>
          \A k \in 2..Len(ret.contents) :
              (/\ IsOk(NewBefore(k))
               /\ ret.contents[k].tag = "Transaction"
               /\ ToAbsentMultisig(NewOutputs(k), NewBefore(k).ledger) # {})
                 => ret.err.kind = "Multisig" /\ ledger = NoLedger

\* C34, amended: a transaction with an output to a Multisig address whose
\* account does not exist is rejected and has no effect; the error is the
\* Multisig ledger error when every earlier check passes: the checks before
\* the outputs, the outputs before it, its own value and discrimination; and
\* no ledger ever holds a multisig account, in the first block or later.
C34_MultisigOutput ==
    /\ ledger # NoLedger => ledger.multisig = multisig_new
    /\ (OneTxBlock /\ ToAbsentMultisig(TheTx.transaction.outputs, ret.self) # {}) =>
          LET n == Least(ToAbsentMultisig(TheTx.transaction.outputs, ret.self))
          IN /\ ~IsOk(ret)
             /\ ledger = ret.self
             /\ (/\ ChecksBeforeOutputs
                 /\ IsOk(OutputsBefore(n))
                 /\ Passes(TheTx.transaction.outputs[n], ret.self.static_params))
                   => ret.err = MultisigErr("DoesntExist")
    /\ NewReturned =>
          \A k \in 2..Len(ret.contents) :
              (/\ IsOk(NewBefore(k))
               /\ ret.contents[k].tag = "Transaction"
               /\ ToAbsentMultisig(NewOutputs(k), NewBefore(k).ledger) # {})
                 => LET n == Least(ToAbsentMultisig(NewOutputs(k), NewBefore(k).ledger))
                    IN /\ ~IsOk(ret)
                       /\ ledger = NoLedger
                       /\ (/\ Len(ret.contents[k].tx.transaction.inputs) = 0
                           /\ Len(ret.contents[k].tx.witnesses) = 0
                           /\ IsOk(NewOutputsBefore(k, n))
                           /\ Passes(NewOutputs(k)[n], NewBefore(k).ledger.static_params))
                             => ret.err = MultisigErr("DoesntExist")

\* apply_block refused a transaction for its second output, of value 1 to a
\* multisig account that does not exist, after the first output had been
\* credited to an account of the working copy
C34_Witness ==
    /\ OneTxBlock
    /\ ToAbsentMultisig(TheTx.transaction.outputs, ret.self) = {2}
    /\ ChecksBeforeOutputs
    /\ IsOk(OutputsBefore(2))
    /\ OutputsBefore(2).ledger.accounts # InputsDone.ledger.accounts
    /\ TheTx.transaction.outputs[2].value = 1
    /\ ret.err = MultisigErr("DoesntExist")
    /\ ledger = ret.self

\* the same in the first block
MultisigOutputInFirstBlock ==
    /\ NewReturned
    /\ ret.err = MultisigErr("DoesntExist")
    /\ ledger = NoLedger

\* the utxos of a transaction id are the Single and Group outputs of the
\* list, each under its position (0-based) in the whole list
StoredAtPositions(l, txid, outputs) ==
    LET made == OutputsOfKind(outputs, "Single") \cup OutputsOfKind(outputs, "Group")
    IN /\ IndexesOf(l, txid) = {n - 1 : n \in made}
       /\ \A n \in made : l.utxos[txid][n - 1] = outputs[n]

\* the same for the later blocks alone
IndexIsPositionInLaterBlocks ==
    (OneTxBlock /\ IsOk(ret)) =>
        StoredAtPositions(ledger, TheTxId, TheTx.transaction.outputs)

\* C35: every utxo created from an output of a transaction is stored under
\* the transaction's id and the position of the output in the whole list of
\* outputs, Account and Multisig outputs counted; the position is never
\* truncated to 8 bits, in the first block as in later blocks.
C35_IndexIsPosition ==
    /\ IndexIsPositionInLaterBlocks
    /\ (NewReturned /\ IsOk(ret)) =>
          \A k \in 2..Len(ret.contents) :
              ret.contents[k].tag = "Transaction" =>
                  StoredAtPositions(ledger, Hash(ret.contents[k].tx.transaction),
                                    NewOutputs(k))

(***************************************************************************)
(* apply_fragment and apply_block on fragments of every kind: Initial and  *)
(* OldUtxoDeclaration fragments after the first block, transactions with   *)
(* each kind of witness, proposals, votes and certificates, under headers  *)
(* with and without a nonce.                                               *)
(***************************************************************************)
DispatchFragments ==
    LET InitialMsg(params) == [tag |-> "Initial", params |-> params]
        OldDeclMsg(addrs) == [tag |-> "OldUtxoDeclaration", decl |-> [addrs |-> addrs]]
        cert(content) ==
            CertTx(<<AcctIn(K1, 1)>>, <<Out(Account(Production, K2), 1)>>,
                   Certificate(content, K1, K1))
    IN {InitialMsg(InitialParams), InitialMsg(<<Param("LinearFee", LinearFee(1, 0, 0))>>),
        OldDeclMsg(OD1.addrs), OldDeclMsg(<<<<OldAddressOf(X2), 1>>>>),
        TxMsg(T1, <<WAcct(K1, T1, 0)>>), TxMsg(T1, <<WMulti(K1, T1, 0)>>),
        TxMsg(T4, <<WUtxo(K2, T4)>>),
        TxMsg(T7, <<WOld(X1, T7)>>), TxMsg(T7, <<WOld(X2, T7)>>),
        PFee, Vote(PFee, K1)}
       \cup {CertMsg(cert(x), <<WAcct(K1, cert(x), c)>>) :
                x \in {StakePoolRegistration(Pool1), StakeDelegation(K1, Pool1),
                       StakePoolRetirement(Pool1)},
                c \in Counters}

DispatchBlocks ==
    LET InitialMsg(params) == [tag |-> "Initial", params |-> params]
        OldDeclMsg(addrs) == [tag |-> "OldUtxoDeclaration", decl |-> [addrs |-> addrs]]
    IN {<< >>} \cup {<<f>> : f \in DispatchFragments}
       \cup {<<TxMsg(T1, <<WAcct(K1, T1, 0)>>), InitialMsg(InitialParams)>>,
             <<TxMsg(T7, <<WOld(X2, T7)>>), OldDeclMsg(OD1.addrs)>>}

NextDispatch ==
    \/ \E f \in DispatchFragments :
          ApplyFragment(get_ledger_parameters(ledger), f, HeaderOf(ledger))
    \/ \E c \in DispatchBlocks, d \in LaterDates(ledger.date), n \in Nonces :
          ApplyBlock(get_ledger_parameters(ledger), c,
                     Header(ledger.chain_length + 1, d, n))
    \/ Continue

SpecDispatch == Init /\ [][NextDispatch]_vars

\* the positions of the Initial and OldUtxoDeclaration fragments of the call
FirstBlockOnly ==
    {k \in 1..Len(ret.contents) : ret.contents[k].tag \in {"Initial", "OldUtxoDeclaration"}}

\* apply_block passed the header checks and process_proposals, and the
\* fragments before the k-th were applied
AppliedBefore(k) ==
    Bind(apply_block_begin(ret.self, ret.metadata), LAMBDA b :
       IF ~IsOk(b) THEN b
       ELSE apply_contents_from(b.ledger, [fees |-> ret.fees], SubSeq(ret.contents, 1, k - 1),
                                ret.metadata, 1, NoLog))

\* the old utxos of ledger a are among those of ledger b, with their outputs
OldUtxosAmong(a, b) ==
    \A p \in utxo_iter(a.oldutxos) :
        p \in utxo_iter(b.oldutxos) /\ a.oldutxos[p[1]][p[2]] = b.oldutxos[p[1]][p[2]]

\* the settings process_proposals gives at the boundary of the block
SettingsOfGovernance ==
    update_process_proposals(ret.self.updates, ret.self.settings, ret.self.date,
                             ret.metadata.block_date).settings

\* what the claim says of the fragments: an Initial or OldUtxoDeclaration
\* fragment given to apply_fragment is rejected with OnlyMessageReceived, a
\* block that holds one is rejected, with that error when the block gets to
\* it, and the old utxos of the caller's ledger are among those it had
FirstBlockFragmentsRejected ==
    /\ (ret # Idle /\ ret.op = "apply_fragment" /\ FirstBlockOnly # {}) =>
          ret.err = Block0Err("OnlyMessageReceived") /\ ledger = ret.self
    /\ (ret # Idle /\ ret.op = "apply_block" /\ FirstBlockOnly # {}) =>
          /\ ~IsOk(ret)
          /\ ledger = ret.self
          /\ IsOk(AppliedBefore(Least(FirstBlockOnly)))
                => ret.err = Block0Err("OnlyMessageReceived")
    /\ ret # Idle => OldUtxosAmong(ledger, ret.self)

\* C36 as stated: after the first block Initial and OldUtxoDeclaration
\* fragments are rejected with OnlyMessageReceived, so the settings change
\* only through governance and no entry is added to the old utxos.
C36_Original ==
    /\ FirstBlockFragmentsRejected
    /\ (ret # Idle /\ ret.op = "apply_fragment") => ledger.settings = ret.self.settings
    /\ (ret # Idle /\ ret.op = "apply_block") =>
          ledger.settings \in {ret.self.settings, SettingsOfGovernance}

\* C36, amended: the same, the settings of the ledger a block returns being
\* those process_proposals gives at the block's boundary with the header's
\* nonce, when it carries one, mixed into the running consensus nonce.
C36_FirstBlockOnly ==
    /\ FirstBlockFragmentsRejected
    /\ (ret # Idle /\ ret.op = "apply_fragment") => ledger.settings = ret.self.settings
    /\ (ret # Idle /\ ret.op = "apply_block") =>
          ledger.settings =
              IF ~IsOk(ret) THEN ret.self.settings
              ELSE [SettingsOfGovernance EXCEPT
                       !.consensus_nonce = IF ret.metadata.nonce = None THEN @
                                           ELSE hash_with(@, ret.metadata.nonce[1])]

\* a block whose first fragment spent the legacy utxo in the working copy was
\* rejected at its second fragment, a declaration of legacy utxos
C36_Witness ==
    /\ ret # Idle
    /\ ret.op = "apply_block"
    /\ FirstBlockOnly = {2}
    /\ ret.contents[2].tag = "OldUtxoDeclaration"
    /\ IsOk(AppliedBefore(2))
    /\ AppliedBefore(2).ledger.oldutxos # ret.self.oldutxos
    /\ ret.err = Block0Err("OnlyMessageReceived")
    /\ ledger = ret.self

\* the other cases: an Initial fragment given to apply_fragment on a ledger
\* whose settings governance had changed, and old utxos that shrank
InitialAfterAdoption ==
    /\ ret # Idle
    /\ ret.op = "apply_fragment"
    /\ ret.contents[1].tag = "Initial"
    /\ ret.self.settings.linear_fees # Genesis.settings.linear_fees
    /\ ret.err = Block0Err("OnlyMessageReceived")

OldUtxosShrank ==
    /\ ret # Idle
    /\ IsOk(ret)
    /\ ledger.oldutxos # ret.self.oldutxos

\* a block of one certificate of content StakeDelegation whose own signature
\* verifies and whose transaction part is valid: apply_certificate_content
\* is called, on the ledger the transaction part left
DelegationReached ==
    /\ OneCertBlock
    /\ TheCertificate.content.kind = "StakeDelegation"
    /\ certificate_verify(TheCertificate)
    /\ IsOk(apply_transaction(ret.self, TheTx, [fees |-> ret.fees]))

\* the ledger the content of the certificate is applied on
BeforeContent == apply_transaction(ret.self, TheTx, [fees |-> ret.fees]).ledger

PoolRegistered == TheCertificate.content.pool_id \in DOMAIN BeforeContent.delegation

SingleStakeKey == IsPublicKey(TheCertificate.content.stake_key_id)

StakeAccountExists == TheCertificate.content.stake_key_id \in DOMAIN BeforeContent.accounts

\* the content was applied: the delegation target of the stake key's account
\* is the pool, and nothing else of what the transaction part left changed
DelegationApplied ==
    /\ IsOk(ret)
    /\ ledger.accounts =
          [BeforeContent.accounts EXCEPT
              ![TheCertificate.content.stake_key_id].delegation =
                  TheCertificate.content.pool_id]
    /\ \A a \in DOMAIN ledger.accounts :
          /\ ledger.accounts[a].value = BeforeContent.accounts[a].value
          /\ ledger.accounts[a].counter = BeforeContent.accounts[a].counter
    /\ ledger.delegation = BeforeContent.delegation
    /\ ledger.utxos = BeforeContent.utxos
    /\ ledger.oldutxos = BeforeContent.oldutxos
    /\ ledger.multisig = BeforeContent.multisig
    /\ ledger.updates = BeforeContent.updates

\* C37 as stated: the certificate is applied only if the pool is registered
\* and the stake key is the identifier of an existing single account; an
\* unregistered pool gives StakeDelegationPoolKeyIsInvalid, a stake key that
\* is not a single account gives StakeDelegationAccountIsInvalid, a missing
\* account gives an Account error; on success only the delegation target of
\* that account changes.
C37_Original ==
    DelegationReached =>
        /\ IsOk(ret) => (PoolRegistered /\ SingleStakeKey /\ StakeAccountExists)
        /\ ~PoolRegistered => ret.err = DelegationErr("StakeDelegationPoolKeyIsInvalid")
        /\ ~SingleStakeKey => ret.err = DelegationErr("StakeDelegationAccountIsInvalid")
        /\ (SingleStakeKey /\ ~StakeAccountExists) => ret.err.kind = "Account"
        /\ IsOk(ret) => DelegationApplied
        /\ ~IsOk(ret) => ledger = ret.self

\* C37, amended: the same, the three checks being made in that order: the
\* stake key is looked at only when the pool is registered, and the account
\* only when the stake key is a single account.
C37_StakeDelegation ==
    DelegationReached =>
        /\ IsOk(ret) => (PoolRegistered /\ SingleStakeKey /\ StakeAccountExists)
        /\ ~PoolRegistered => ret.err = DelegationErr("StakeDelegationPoolKeyIsInvalid")
        /\ (PoolRegistered /\ ~SingleStakeKey)
              => ret.err = DelegationErr("StakeDelegationAccountIsInvalid")
        /\ (PoolRegistered /\ SingleStakeKey /\ ~StakeAccountExists)
              => ret.err.kind = "Account"
        /\ (PoolRegistered /\ SingleStakeKey /\ StakeAccountExists) => DelegationApplied
        /\ ~IsOk(ret) => ledger = ret.self

\* a stake key that is not a single account, with the pool registered
C37_Witness ==
    /\ DelegationReached
    /\ PoolRegistered
    /\ ~SingleStakeKey
    /\ ret.err = DelegationErr("StakeDelegationAccountIsInvalid")
    /\ ledger = ret.self

\* the other cases: the pool not registered, for a stake key that is not a
\* single account and for one whose account is missing; the account missing
\* with the pool registered; and a delegation applied
UnregisteredPoolFirst ==
    /\ DelegationReached
    /\ ~PoolRegistered
    /\ ~SingleStakeKey
    /\ ret.err = DelegationErr("StakeDelegationPoolKeyIsInvalid")

UnregisteredPoolMissingAccount ==
    /\ DelegationReached
    /\ ~PoolRegistered
    /\ SingleStakeKey
    /\ ~StakeAccountExists
    /\ ret.err = DelegationErr("StakeDelegationPoolKeyIsInvalid")

MissingStakeAccount ==
    /\ DelegationReached
    /\ PoolRegistered
    /\ SingleStakeKey
    /\ ~StakeAccountExists
    /\ ret.err = AccountErr("NonExistent")

DelegationSet ==
    /\ DelegationReached
    /\ IsOk(ret)
    /\ ledger.accounts[K1].delegation = StakePoolInfo_to_id(Pool1)
    /\ ret.self.accounts[K1].delegation # StakePoolInfo_to_id(Pool1)

\* the delegation target of every account of l, when set, is a pool
\* registered in the delegation state of l
TargetsRegistered(l) ==
    \A a \in DOMAIN l.accounts :
        l.accounts[a].delegation # NoDelegation
            => l.accounts[a].delegation \in DOMAIN l.delegation

\* C38: in every ledger Ledger::new or apply_block returns, the delegation
\* target of every account, when set, is the id of a stake pool registered
\* in the delegation state of that ledger, also after a StakePoolRetirement.
C38_TargetsRegistered == ledger # NoLedger => TargetsRegistered(ledger)

\* the fragments given are certificates of content StakePoolRetirement at
\* some position
Retiring ==
    \E k \in 1..Len(ret.contents) :
        /\ ret.contents[k].tag = "Certificate"
        /\ ret.contents[k].tx.transaction.extra.content.kind = "StakePoolRetirement"

\* a target that is not registered comes from a retirement only
DanglingOnlyByRetirement ==
    /\ (NewReturned /\ IsOk(ret) /\ ~TargetsRegistered(ledger)) => Retiring
    /\ (BlockReturned /\ TargetsRegistered(ret.self) /\ ~TargetsRegistered(ledger)) => Retiring

\* the utxos a ledger holds, as outputs
StoredUtxos(l) == {l.utxos[p[1]][p[2]] : p \in utxo_iter(l.utxos)}

\* C39: in every ledger Ledger::new or apply_block returns, every entry of
\* the utxos sub-ledger has an address of kind Single or Group, never Account
\* or Multisig, so that the address of the output a Utxo witness is verified
\* against has a spending key.
C39_UtxoKinds ==
    ledger # NoLedger =>
        \A t \in DOMAIN ledger.utxos : \A i \in DOMAIN ledger.utxos[t] :
            /\ ledger.utxos[t][i].address.kind \in {"Single", "Group"}
            /\ HasPublicKey(ledger.utxos[t][i].address)

\* apply_block accepted a transaction with an output to a group address and
\* one to an account: the ledger holds more utxos than before, the account
\* was credited, and no utxo is of the account's kind
C39_Witness ==
    /\ OneTxBlock
    /\ IsOk(ret)
    /\ OutputsOfKind(TheTx.transaction.outputs, "Group") # {}
    /\ OutputsOfKind(TheTx.transaction.outputs, "Account") # {}
    /\ StoredUtxos(ledger) \ StoredUtxos(ret.self) # {}
    /\ \E o \in StoredUtxos(ledger) : o.address.kind = "Single"
    /\ \E o \in StoredUtxos(ledger) : o.address.kind = "Group"

\* a Utxo witness was verified against an output the ledger held
UtxoWitnessVerified ==
    /\ OneTxBlock
    /\ IsOk(ret)
    /\ \E k \in 1..Len(TheTx.witnesses) : TheTx.witnesses[k].kind = "Utxo"
    /\ StoredUtxos(ret.self) \ StoredUtxos(ledger) # {}

\* apply_fragment was called on one fragment of the given kind
FragmentReturned(tag) ==
    ret # Idle /\ ret.op = "apply_fragment" /\ ret.contents[1].tag = tag

\* the pairs of an input and a witness of the transaction that are verified:
\* account inputs, each after the pairs before it were verified
AccountPairs(kind) ==
    {k \in 1..Len(TheTx.transaction.inputs) :
        /\ k <= Len(TheTx.witnesses)
        /\ TheTx.transaction.inputs[k].kind = "Account"
        /\ TheTx.witnesses[k].kind = kind
        /\ IsOk(InputsBefore(k))}

\* C40: apply_fragment never changes date, chain_length or the static
\* parameters; a Transaction fragment also leaves settings, updates and
\* delegation as they were; UpdateProposal and UpdateVote fragments leave
\* utxos, old utxos, accounts, multisig and delegation as they were; an
\* account input verified with an Account witness leaves the multisig
\* sub-ledger as it was, and one verified with a Multisig witness leaves the
\* accounts as they were.
C40_FrameOfApplyFragment ==
    /\ (ret # Idle /\ ret.op = "apply_fragment") =>
          /\ ledger.date = ret.self.date
          /\ ledger.chain_length = ret.self.chain_length
          /\ ledger.static_params = ret.self.static_params
    /\ FragmentReturned("Transaction") =>
          /\ ledger.settings = ret.self.settings
          /\ ledger.updates = ret.self.updates
          /\ ledger.delegation = ret.self.delegation
          /\ \A k \in AccountPairs("Account") :
                PairResult(k).ledger.multisig = InputsBefore(k).ledger.multisig
          /\ \A k \in AccountPairs("Multisig") :
                PairResult(k).ledger.accounts = InputsBefore(k).ledger.accounts
    /\ (FragmentReturned("UpdateProposal") \/ FragmentReturned("UpdateVote")) =>
          /\ ledger.utxos = ret.self.utxos
          /\ ledger.oldutxos = ret.self.oldutxos
          /\ ledger.accounts = ret.self.accounts
          /\ ledger.multisig = ret.self.multisig
          /\ ledger.delegation = ret.self.delegation

\* apply_fragment accepted a vote on a ledger that had accepted a
\* transaction: the updates changed and nothing else
C40_Witness ==
    /\ FragmentReturned("UpdateVote")
    /\ IsOk(ret)
    /\ ledger.updates # ret.self.updates
    /\ ledger.accounts # Genesis.accounts
    /\ [ledger EXCEPT !.updates = ret.self.updates] = ret.self

\* the other cases: a transaction accepted, with an input verified with an
\* Account witness; a proposal accepted; a certificate accepted; an account
\* input given a Multisig witness
TransactionFragmentAccepted ==
    /\ FragmentReturned("Transaction")
    /\ IsOk(ret)
    /\ AccountPairs("Account") # {}
    /\ ledger.accounts # ret.self.accounts
    /\ ledger.utxos # ret.self.utxos

ProposalFragmentAccepted ==
    /\ FragmentReturned("UpdateProposal")
    /\ IsOk(ret)
    /\ ledger.updates # ret.self.updates

CertificateFragmentAccepted ==
    /\ FragmentReturned("Certificate")
    /\ IsOk(ret)
    /\ ledger.delegation # ret.self.delegation

MultisigWitnessGiven ==
    /\ FragmentReturned("Transaction")
    /\ AccountPairs("Multisig") # {}

\* no account input is ever verified with a Multisig witness: the multisig
\* sub-ledger holds no account
MultisigWitnessNeverVerified ==
    FragmentReturned("Transaction") =>
        \A k \in AccountPairs("Multisig") : ~IsOk(PairResult(k))
====
